---- MODULE Spec2Model ----
(***************************************************************************)
(* Verification model of the BubbleBreak simulation engine:                *)
(*   PhysicsEngine                     (src/unnamed/part_001)              *)
(*   ParticleSystem and AudioManager   (src/unnamed/part_004)              *)
(*   BubbleGame, Bubble, BubbleManager (src/unnamed/part_005)              *)
(*                                                                         *)
(* Numbers with a fractional part are kept as scaled integers:             *)
(*   qualityLevel   in tenths   (10 = 1.0, 7 = 0.7)                        *)
(*   density        in hundredths (100 = 1.0x)                             *)
(*   opacity        in hundredths (100 = 1.0)                              *)
(*   grace factor   in tenths   (1 = 0.1, 10 = 1.0)                        *)
(* Times of the frame clock (performance.now, deltaTime, ages, lifetimes)  *)
(* are hundredths of a millisecond, so that a frame of 16.67 ms is 1667;   *)
(* times of the wall clock (Date.now) are milliseconds.  Sizes are pixels, *)
(* positions are hundredths of a pixel, velocities are ten-thousandths of  *)
(* a pixel per physics unit (one unit = 16.67 ms).                         *)
(***************************************************************************)
EXTENDS Integers, Sequences, FiniteSets, TLC

\* ------------------------------------------------------------------------
\* Bounds of the model
\* ------------------------------------------------------------------------
\* Capacity of the particle system in normal mode (200 in the source) and in
\* performance mode (100 in the source), scaled down so that the capacity is
\* reached after two or three pop effects.
MaxParticlesNormal == 12
MaxParticlesPerf == 6
\* maxBubbles and initialBubbleCount at density 1.0x (25 and 8 in the
\* source), scaled down so that the bubble capacity is reached with a few
\* bubbles; handleDensityChange multiplies them by the density.
BaseBubbles == 2
BaseInitialBubbles == 1
\* Largest number of bubbles that startGame may bring the active list to.
MaxBubbleObjects == 2
\* window.innerWidth and window.innerHeight.
ViewWidth == 1000
ViewHeight == 800
\* Largest value of the wall clock (Date.now) that is explored.
MaxClock == 300
\* Largest number of sounds started on the audio device in one run.
MaxSounds == 3
\* Largest number of requests waiting in soundQueue.
MaxQueue == 1
\* Largest number of pending test sounds of the volume control.
MaxVolumeTests == 1
\* Longest simulation run of the bubble manager on its own (20 s).
MaxSimTime == 2000000
\* Largest value of performance.now() that is explored (36 s).
MaxPerfClock == 3600000
\* Largest number of frame callbacks pending at once that is explored.
MaxPendingFrames == 2
\* Largest number of turbulence timers pending at once.
MaxTurbulence == 3

\* ------------------------------------------------------------------------
\* Input sets
\* ------------------------------------------------------------------------
\* Bubble diameters handed to createPopEffect / playPopSound.
PopSizes == {60, 200}
\* Bubble sizes handed to playPopSound on its own.
SoundSizes == {200}
\* Frame deltas handed to ParticleSystem.update on its own (500 ms).
FrameDeltas == {50000}
\* Frame deltas of the game loop (9 s: the tab was in the background).
GameFrameDeltas == {900000}
\* Draws of spawnBubble / spawnInitialBubbles: the edge (0 bottom, 1 left,
\* 2 right), the position along the edge in percent, the lifetime
\* bubbleLifetime + (random - 0.5) * bubbleLifetimeVariation, and the next
\* spawn delay spawnRate + (random - 0.5) * spawnRateVariation.
SpawnSides == {0}
\* randomValue of spawnBubble in hundredths, for a spawn on the bottom edge
SpawnDraws == {40}
\* randomValue at both ends of the range of each edge
EdgeDraws == {0, 79, 80, 89, 90, 99}
\* the position along the edge in percent, and randomSpeed in tenths, of the
\* spawns on every edge
EdgePercents == {0, 50, 99}
EdgeSpeeds == {3, 7}
SpawnPercents == {25}
BubbleLifetimes == {1800000}
SpawnDelays == {80000}
\* randomSpeed of spawnBubble, in tenths (0.3 .. 0.7).
SpawnSpeeds == {5}
\* What wobble, wind and breeze add to vy in one physics update at grace
\* factor 1.0 (0: no wind, wobble at a zero of its cosine).
Pushes == {0}
\* Bubbles handed to BubbleManager.createBubble on its own: 100 px below a
\* 1000x800 window and in the middle of it; diameter; lifetime (3 s).
SimPositions == {<<50000, 100000>>, <<50000, 40000>>}
SimSizes == {150}
\* Position of the bubbles created in a window that is resized: (500, 400).
ResizePositions == {<<50000, 40000>>}
\* Window sizes of a resize event, in px: the initial window, and one 330 px
\* high.
ResizeSizes == {<<ViewWidth, ViewHeight>>, <<ViewWidth, 330>>}
\* Positions of the bubbles handed to createBubble when several are kept:
\* the middle of the window and 100 px below the off-screen margin.
ManagerPositions == {<<50000, 40000>>, <<50000, 100000>>}
SimLifetimes == {300000}
\* Frame deltas of a simulation run: 16.67 ms in a fine run, 1 s and 5 s in
\* a coarse one.
FineDeltas == {1667}
CoarseDeltas == {100000, 500000}
\* Steps by which performance.now() advances between two events (9 s).
PerfSteps == {900000}
\* argument of handleVolumeChange (slider value 0..10)
VolumeLevels == {0, 3}
\* argument of handleDensityChange (slider value 0..10)
DensityLevels == {0, 5}
\* Lifetime drawn for the droplets of one pop effect:
\* particleLifetime + (random - 0.5) * 200.
DropletLifetimes == {100000}
\* Lifetime drawn for the particles of one splash effect: 800 + random * 400.
SplashLifetimes == {100000}
\* intensity argument of createSplashEffect, in tenths.
SplashIntensities == {5}
\* Steps (ms) by which the wall clock advances between two callbacks.
ClockSteps == {100}
\* Themes whose sounds are requested (of classic, oil, crystal, galaxy).
Themes == {"classic", "oil"}
\* Outcomes of loadBubblePopSound: the themes whose file was decoded.
LoadOutcomes == {{}, {"classic"}, Themes}
\* level argument of setQualityLevel, in tenths.
QualityLevels == {5}

\* ------------------------------------------------------------------------
\* General helpers
\* ------------------------------------------------------------------------
Min(a, b) == IF a < b THEN a ELSE b
Max(a, b) == IF a > b THEN a ELSE b
Clamp(v, lo, hi) == Max(lo, Min(hi, v))
\* Math.floor(n / d) and Math.round(n / d) for n >= 0, d > 0
FloorDiv(n, d) == n \div d
RoundDiv(n, d) == (2 * n + d) \div (2 * d)
\* n / d with the fraction dropped, for either sign of n (d > 0)
Trunc(n, d) == IF n >= 0 THEN n \div d ELSE -((-n) \div d)
RECURSIVE SeqToSet(_)
SeqToSet(s) == IF s = <<>> THEN {} ELSE {Head(s)} \cup SeqToSet(Tail(s))
RECURSIVE Reverse(_)
Reverse(s) == IF s = <<>> THEN <<>> ELSE Append(Reverse(Tail(s)), Head(s))
\* Array.prototype.pop: the array without its last element
ButLast(s) == SubSeq(s, 1, Len(s) - 1)
Last(s) == s[Len(s)]
NoDuplicates(s) == \A i, j \in 1..Len(s) : i # j => s[i] # s[j]

VARIABLES
    \* ParticleSystem
    particles,          \* active particles, in array order
    particlePool,       \* pooled particle objects (their identities)
    activeParticles,    \* the counter the capacity checks read
    maxParticles,
    qualityLevel,       \* tenths
    baseParticleCount,
    performanceMode,
    particlesAllocated, \* number of createNewParticle calls so far
    lastPop,            \* what the last createPopEffect call did
    \* BubbleManager
    bubbles,            \* active bubbles, in array order
    bubblePool,         \* pooled Bubble objects (their identities)
    activeCount,
    bubblesAllocated,   \* number of new Bubble(...) so far
    lastWindUpdate,     \* PhysicsEngine.lastWindUpdate: frame time since the last wind roll
    windUpdateInterval, \* PhysicsEngine.windUpdateInterval
    simplePhysics,      \* PhysicsEngine.simplePhysics
    breezeZones,        \* PhysicsEngine.breezeZones: 0 a generated zone, k > 0 turbulence zone k
    zoneTimers,         \* turbulence zones whose setTimeout callback is pending
    \* BubbleGame
    configMaxBubbles,           \* config.maxBubbles
    configInitialBubbleCount,   \* config.initialBubbleCount
    innerWidth,         \* window.innerWidth = game.width = physicsEngine.width (px)
    innerHeight,        \* window.innerHeight = game.height = physicsEngine.height (px)
    bubbleDensityMultiplier,    \* hundredths
    bubbleSpeedMultiplier,      \* hundredths
    currentTheme,
    gameStarted,
    lastSpawnTime,
    nextSpawnDelay,
    popCount,
    lastInteraction,    \* what the last handleBubbleInteraction call did
    \* AudioManager
    audioContextState,  \* "none" (audioContext = null), "suspended", "running"
    isEnabled,
    isMuted,
    isInitialized,
    isBufferLoaded,
    loadedThemes,       \* themes t with bubblePopBuffers[t] decoded
    maxSimultaneousSounds,
    activeSounds,       \* ids of the tracked sounds, in array order
    soundQueue,         \* queued requests [bubbleSize, theme, timestamp]
    \* the platform the AudioManager runs on
    now,                \* Date.now()
    playing,            \* sounds started on the device that have not ended
    timers,             \* pending setTimeout callbacks cleanupSound(id)
    soundCounter,       \* number of sound ids handed out
    strictAudioParams,  \* AudioParam setters reject a non-finite value
    volumeTests,        \* pending test-sound timers of handleVolumeChange
    lastDrain,          \* what the last processQueuedSounds call did
    audioErrors,        \* the exceptions raised inside the last audio call
    \* the game loop
    isRunning,
    isPaused,
    lastTime,
    perfNow,            \* performance.now()
    pendingFrames,      \* number of requestAnimationFrame(gameLoop) callbacks pending
    pausedSince,        \* time spent paused since lastTime was last assigned
    pausedTotal,        \* time spent paused since the loop was started
    lastLoop,           \* what the last gameLoop callback did
    \* a simulation run of the bubble manager on its own
    simulation          \* time simulated since the last bubble was created

particleVars == <<particles, particlePool, activeParticles, maxParticles,
                  qualityLevel, baseParticleCount, performanceMode,
                  particlesAllocated, lastPop>>

audioVars == <<audioContextState, isEnabled, isMuted, isInitialized,
               isBufferLoaded, loadedThemes, maxSimultaneousSounds,
               activeSounds, soundQueue, now, playing, timers, soundCounter,
               strictAudioParams, volumeTests, lastDrain, audioErrors>>

bubbleVars == <<bubbles, bubblePool, activeCount, bubblesAllocated, lastWindUpdate,
               windUpdateInterval, simplePhysics, breezeZones, zoneTimers>>

gameVars == <<configMaxBubbles, configInitialBubbleCount, bubbleDensityMultiplier, bubbleSpeedMultiplier,
              innerWidth, innerHeight, currentTheme, gameStarted, lastSpawnTime, nextSpawnDelay, popCount,
              lastInteraction>>

loopVars == <<isRunning, isPaused, lastTime, perfNow, pendingFrames, pausedSince,
              pausedTotal, lastLoop>>

simVars == <<simulation>>

vars == <<particleVars, audioVars, bubbleVars, gameVars, loopVars, simVars>>

\* ========================================================================
\* ParticleSystem
\* ========================================================================
\* The particle system as one value, so that the operations compose.
PSState == [particles |-> particles, pool |-> particlePool,
            active |-> activeParticles, alloc |-> particlesAllocated]

\* lifetime of a burst ring (200 ms) and config.fadeOutDuration (300 ms), in
\* hundredths of a millisecond
BurstLifetime == 20000
FadeOutDuration == 30000

\* opacity (thousandths) given to a droplet (0.8 + random * 0.2, splash:
\* 0.6 + random * 0.4) and to a burst ring (0.4)
DropletOpacity == 900
BurstOpacity == 400

\* createNewParticle: a fresh object; its identity is its allocation number.
createNewParticle(id) ==
    [id |-> id, type |-> "droplet", age |-> 0, lifetime |-> 100000, isAlive |-> TRUE,
     opacity |-> DropletOpacity]

\* resetParticle applied to a pooled object; every caller assigns lifetime
\* and opacity afterwards.
resetParticle(id) ==
    [id |-> id, type |-> "droplet", age |-> 0, lifetime |-> 100000, isAlive |-> TRUE,
     opacity |-> DropletOpacity]

\* sizeRatio * 150 = max(0.5, min(3.0, bubbleSize / 150)) * 150
SizeRatio150(bubbleSize) == Clamp(bubbleSize, 75, 450)

\* particleCount of createPopEffect:
\* Math.floor(baseParticleCount * sizeRatio * qualityLevel)
PopParticleCount(bubbleSize, base, quality) ==
    FloorDiv(base * SizeRatio150(bubbleSize) * quality, 1500)

\* createDropletParticle: takes a pooled object if there is one, else allocates.
createDropletParticle(s, life) ==
    IF Len(s.pool) > 0
    THEN [s EXCEPT !.particles = Append(@, [resetParticle(Last(s.pool)) EXCEPT !.lifetime = life]),
                   !.pool = ButLast(@),
                   !.active = @ + 1]
    ELSE [s EXCEPT !.particles = Append(@, [createNewParticle(s.alloc + 1) EXCEPT !.lifetime = life]),
                   !.alloc = @ + 1,
                   !.active = @ + 1]

\* the for loop of createPopEffect
RECURSIVE createDroplets(_, _, _)
createDroplets(s, n, life) ==
    IF n <= 0 THEN s ELSE createDroplets(createDropletParticle(s, life), n - 1, life)

\* getPooledParticle followed by the caller's push: the pooled object, a new
\* one while activeParticles < maxParticles, or nothing (null).
GetPooledAvailable(s, maxP) == Len(s.pool) > 0 \/ s.active < maxP

pushPooledParticle(s, type, life) ==
    IF Len(s.pool) > 0
    THEN [s EXCEPT !.particles = Append(@, [resetParticle(Last(s.pool)) EXCEPT !.type = type, !.lifetime = life,
                                              !.opacity = IF type = "burst" THEN BurstOpacity ELSE DropletOpacity]),
                   !.pool = ButLast(@),
                   !.active = @ + 1]
    ELSE [s EXCEPT !.particles = Append(@, [createNewParticle(s.alloc + 1) EXCEPT !.type = type, !.lifetime = life,
                                              !.opacity = IF type = "burst" THEN BurstOpacity ELSE DropletOpacity]),
                   !.alloc = @ + 1,
                   !.active = @ + 1]

\* createBurstEffect that allocates a ring whenever the pool is empty
createBurstEffect_Always(s, maxP) == pushPooledParticle(s, "burst", BurstLifetime)

\* createBurstEffect
createBurstEffect(s, maxP) ==
    IF GetPooledAvailable(s, maxP) THEN pushPooledParticle(s, "burst", BurstLifetime) ELSE s

\* createPopEffect without the limit of the available slots
createPopEffect_Unlimited(s, bubbleSize, life, maxP, base, quality) ==
    createBurstEffect(createDroplets(s, PopParticleCount(bubbleSize, base, quality), life), maxP)

\* createPopEffect
createPopEffect(s, bubbleSize, life, maxP, base, quality) ==
    LET particleCount == PopParticleCount(bubbleSize, base, quality)
        availableSlots == maxP - s.active
        actualCount == Min(particleCount, availableSlots)
    IN  createBurstEffect(createDroplets(s, actualCount, life), maxP)

\* What a createPopEffect call did, for the properties about one call.
PopRecord(s, t, bubbleSize, maxP, base, quality) ==
    LET added == SubSeq(t.particles, Len(s.particles) + 1, Len(t.particles))
    IN  [called |-> TRUE, size |-> bubbleSize,
         maxParticles |-> maxP, base |-> base, quality |-> quality,
         activeBefore |-> s.active, pooledBefore |-> Len(s.pool),
         droplets |-> Cardinality({i \in 1..Len(added) : added[i].type = "droplet"}),
         bursts |-> Cardinality({i \in 1..Len(added) : added[i].type = "burst"})]

NoPop == [called |-> FALSE]

\* createSplashEffect: the loop stops at the first null of getPooledParticle.
RECURSIVE createSplashParticles(_, _, _, _)
createSplashParticles(s, n, life, maxP) ==
    IF n <= 0 \/ ~GetPooledAvailable(s, maxP) THEN s
    ELSE createSplashParticles(pushPooledParticle(s, "droplet", life), n - 1, life, maxP)

createSplashEffect(s, intensity, life, maxP, quality) ==
    createSplashParticles(s, FloorDiv(12 * intensity * quality, 100), life, maxP)

\* updateBurstParticle: opacity = 0.4 * (1 - progress); the ring dies when its
\* progress reaches 1
updateBurstParticle(p) ==
    [p EXCEPT !.opacity = (BurstOpacity * (p.lifetime - p.age)) \div p.lifetime,
              !.isAlive = (p.age < p.lifetime)]

\* updateDropletParticle: the droplet dies when it has left the screen or
\* shrunk away (offScreen, decided by its position and size)
updateDropletParticle(p, offScreen) == [p EXCEPT !.isAlive = ~offScreen]

\* updateParticleOpacity: in the last fadeOutDuration of a droplet's life
\* opacity *= 1 - fadeProgress, which is (lifetime - age) / fadeOutDuration
\* (the factor is kept at -1 or above: the opacity of a droplet more than a
\* fadeOutDuration past its lifetime is below zero either way, and the
\* product stays within the integers of the checker)
updateParticleOpacity(p) ==
    IF p.type = "droplet" /\ p.age > p.lifetime - FadeOutDuration
    THEN [p EXCEPT !.opacity =
              (@ * Max(p.lifetime - p.age, -FadeOutDuration)) \div FadeOutDuration]
    ELSE p

\* updateParticle: age advances by the frame delta, then the update of the
\* particle's type, then the fade
updateParticle(p, dt, offScreen) ==
    LET aged == [p EXCEPT !.age = @ + dt]
    IN  updateParticleOpacity(IF aged.type = "burst" THEN updateBurstParticle(aged)
                              ELSE updateDropletParticle(aged, offScreen))

\* the removal test of ParticleSystem.update that looks at isAlive only
ShouldRemove_DeadOnly(p) == ~p.isAlive

\* the removal test of ParticleSystem.update after updateParticle
ShouldRemove(p) == p.age >= p.lifetime \/ p.opacity <= 0

\* ParticleSystem.update: the loop runs from the last index down to the first;
\* a particle found dead is removed without being updated.
RECURSIVE updateFrom(_, _, _, _)
updateFrom(s, i, dt, off) ==
    IF i = 0 THEN s
    ELSE LET p == s.particles[i]
             rest(k) == SubSeq(s.particles, 1, k - 1) \o
                        SubSeq(s.particles, k + 1, Len(s.particles))
         IN  IF ~p.isAlive
             THEN updateFrom([s EXCEPT !.particles = rest(i),
                                       !.pool = Append(@, p.id),
                                       !.active = @ - 1], i - 1, dt, off)
             ELSE LET q == updateParticle(p, dt, i = off)
                  IN  IF ShouldRemove(q)
                      THEN updateFrom([s EXCEPT !.particles = rest(i),
                                                !.pool = Append(@, q.id),
                                                !.active = @ - 1], i - 1, dt, off)
                      ELSE updateFrom([s EXCEPT !.particles[i] = q], i - 1, dt, off)

particleUpdate(s, dt, off) == updateFrom(s, Len(s.particles), dt, off)

\* clearAll
\* clearAll without the reset of activeParticles
clearAll_KeepCount(s) ==
    [s EXCEPT !.pool = @ \o [i \in 1..Len(s.particles) |-> s.particles[i].id],
              !.particles = <<>>]

clearAll(s) ==
    [s EXCEPT !.pool = @ \o [i \in 1..Len(s.particles) |-> s.particles[i].id],
              !.particles = <<>>,
              !.active = 0]

\* dispose: clearAll, then both lists are replaced by empty ones and the
\* counter is set to 0; the system holds none of its objects any more.
dispose(s) ==
    [clearAll(s) EXCEPT !.pool = <<>>, !.particles = <<>>, !.active = 0, !.alloc = 0]

\* Object identities are opaque to the program: a state is kept up to a
\* renaming of the identities, each object being named by the place of its
\* first occurrence in the active list followed by the pool.
CanonicalIds(ids) ==
    LET first(id) == CHOOSE i \in 1..Len(ids) :
                        /\ ids[i] = id
                        /\ \A j \in 1..(i - 1) : ids[j] # id
    IN  [id \in {ids[i] : i \in 1..Len(ids)} |->
            Cardinality({ids[j] : j \in 1..first(id)})]

CanonicalPS(t) ==
    LET ids == [i \in 1..Len(t.particles) |-> t.particles[i].id] \o t.pool
        name == CanonicalIds(ids)
    IN  [t EXCEPT !.particles = [i \in 1..Len(t.particles) |->
                                   [t.particles[i] EXCEPT !.id = name[@]]],
                  !.pool = [i \in 1..Len(t.pool) |-> name[t.pool[i]]]]

SetPS(t) ==
    LET c == CanonicalPS(t)
    IN  /\ particles' = c.particles
        /\ particlePool' = c.pool
        /\ activeParticles' = c.active
        /\ particlesAllocated' = c.alloc

\* ---- actions ------------------------------------------------------------
ParticleInit ==
    /\ particles = <<>>
    /\ particlePool = <<>>
    /\ activeParticles = 0
    /\ maxParticles = MaxParticlesNormal
    /\ qualityLevel = 10
    /\ baseParticleCount = 8
    /\ performanceMode = FALSE
    /\ particlesAllocated = 0
    /\ lastPop = NoPop

CreatePopEffect(bubbleSize, life) ==
    LET t == createPopEffect(PSState, bubbleSize, life, maxParticles,
                             baseParticleCount, qualityLevel)
    IN  /\ SetPS(t)
        /\ lastPop' = PopRecord(PSState, t, bubbleSize, maxParticles,
                                baseParticleCount, qualityLevel)
        /\ UNCHANGED <<maxParticles, qualityLevel, baseParticleCount, performanceMode>>

CreateSplashEffect(intensity, life) ==
    /\ SetPS(createSplashEffect(PSState, intensity, life, maxParticles, qualityLevel))
    /\ lastPop' = NoPop
    /\ UNCHANGED <<maxParticles, qualityLevel, baseParticleCount, performanceMode>>

ParticleUpdate(dt, off) ==
    /\ SetPS(particleUpdate(PSState, dt, off))
    /\ lastPop' = NoPop
    /\ UNCHANGED <<maxParticles, qualityLevel, baseParticleCount, performanceMode>>

ClearAll ==
    /\ SetPS(clearAll(PSState))
    /\ lastPop' = NoPop
    /\ UNCHANGED <<maxParticles, qualityLevel, baseParticleCount, performanceMode>>

\* the record of a dispose
Disposed == [called |-> FALSE, disposed |-> TRUE]

Dispose ==
    /\ SetPS(dispose(PSState))
    /\ lastPop' = Disposed
    /\ UNCHANGED <<maxParticles, qualityLevel, baseParticleCount, performanceMode>>

EnablePerformanceMode(enabled) ==
    /\ performanceMode' = enabled
    /\ maxParticles' = IF enabled THEN MaxParticlesPerf ELSE MaxParticlesNormal
    /\ qualityLevel' = IF enabled THEN 7 ELSE 10
    /\ baseParticleCount' = IF enabled THEN 6 ELSE 8
    /\ lastPop' = NoPop
    /\ UNCHANGED <<particles, particlePool, activeParticles, particlesAllocated>>

SetQualityLevel(level) ==
    /\ qualityLevel' = Clamp(level, 1, 10)
    /\ lastPop' = NoPop
    /\ UNCHANGED <<particles, particlePool, activeParticles, maxParticles,
                   baseParticleCount, performanceMode, particlesAllocated>>

\* ========================================================================
\* AudioManager
\* ========================================================================
\* Age (ms) from which processQueuedSounds drops a queued request.
QueueMaxAge == 100

\* The mutable part of the audio manager as one value.
ASState == [active |-> activeSounds, queue |-> soundQueue, playing |-> playing,
            timers |-> timers, counter |-> soundCounter, drain |-> lastDrain,
            errors |-> audioErrors]

NoDrain == [ran |-> FALSE]

\* The exceptions of one call: sample, thrown in playAudioFile and caught
\* there; fallback, its catch called createPopSound; synth, thrown in
\* synthesizePopSound and caught by createPopSound; escaped, thrown out of
\* the call.
NoErrors == [sample |-> FALSE, fallback |-> FALSE, synth |-> FALSE, escaped |-> FALSE]

\* Delay (ms) of the cleanup timer of createPopSound: duration * 1000 + 100
\* with duration = 0.08 + sizeRatio * 0.04, sizeRatio = clamp(size/150, 0.3, 3).
SynthCleanupDelay(bubbleSize) == 180 + FloorDiv(40 * Clamp(bubbleSize, 45, 450), 150)

\* createPopSound: frequency = this.baseFrequency + this.frequencyRange * ...
\* is NaN, because neither field is ever set.  synthesizePopSound hands it to
\* oscillator.frequency.setValueAtTime: a platform that rejects non-finite
\* values throws there, the catch logs, and nothing has been started or
\* tracked.  Otherwise the oscillator is started, the sound is pushed onto
\* activeSounds and the cleanup timer is set.
createPopSound_NoCatch(a, bubbleSize) ==
    IF strictAudioParams THEN [a EXCEPT !.errors.escaped = TRUE]
    ELSE LET id == a.counter + 1
         IN  [a EXCEPT !.counter = id,
                       !.playing = @ \cup {id},
                       !.active = Append(@, id),
                       !.timers = @ \cup {[id |-> id, due |-> now + SynthCleanupDelay(bubbleSize)]}]

createPopSound(a, bubbleSize) ==
    IF strictAudioParams THEN [a EXCEPT !.errors.synth = TRUE]
    ELSE LET id == a.counter + 1
         IN  [a EXCEPT !.counter = id,
                       !.playing = @ \cup {id},
                       !.active = Append(@, id),
                       !.timers = @ \cup {[id |-> id, due |-> now + SynthCleanupDelay(bubbleSize)]}]

\* playAudioFile: the buffer source is started, then the read of
\* this.bubblePopBuffer.duration (the field is bubblePopBuffers) throws before
\* the sound is pushed onto activeSounds and before onended is set; the catch
\* falls back to createPopSound.
playAudioFile(a, bubbleSize, theme) ==
    LET id == a.counter + 1
        started == [a EXCEPT !.counter = id, !.playing = @ \cup {id},
                             !.errors.sample = TRUE, !.errors.fallback = TRUE]
    IN  createPopSound(started, bubbleSize)

\* processQueuedSounds without the removal of old requests
processQueuedSounds_NoExpiry(a) ==
    IF Len(a.queue) > 0 /\ Len(a.active) < maxSimultaneousSounds
    THEN LET nextSound == Head(a.queue)
             b == [a EXCEPT !.queue = Tail(a.queue),
                            !.drain = [ran |-> TRUE, dropped |-> 0, started |-> TRUE,
                                       age |-> now - nextSound.timestamp]]
         IN  IF isBufferLoaded /\ nextSound.theme \in loadedThemes
             THEN playAudioFile(b, nextSound.bubbleSize, nextSound.theme)
             ELSE createPopSound(b, nextSound.bubbleSize)
    ELSE [a EXCEPT !.drain = [ran |-> TRUE, dropped |-> 0, started |-> FALSE, age |-> 0]]

\* processQueuedSounds
processQueuedSounds(a) ==
    LET fresh(sound) == now - sound.timestamp < QueueMaxAge
        kept == SelectSeq(a.queue, fresh)
        dropped == Len(a.queue) - Len(kept)
    IN  IF Len(kept) > 0 /\ Len(a.active) < maxSimultaneousSounds
        THEN LET nextSound == Head(kept)
                 b == [a EXCEPT !.queue = Tail(kept),
                                !.drain = [ran |-> TRUE, dropped |-> dropped,
                                           started |-> TRUE,
                                           age |-> now - nextSound.timestamp]]
             IN  IF isBufferLoaded /\ nextSound.theme \in loadedThemes
                 THEN playAudioFile(b, nextSound.bubbleSize, nextSound.theme)
                 ELSE createPopSound(b, nextSound.bubbleSize)
        ELSE [a EXCEPT !.queue = kept,
                       !.drain = [ran |-> TRUE, dropped |-> dropped,
                                  started |-> FALSE, age |-> 0]]

\* cleanupSound
cleanupSound(a, soundId) ==
    LET other(id) == id # soundId
    IN  processQueuedSounds([a EXCEPT !.active = SelectSeq(@, other)])

\* playPopSound
PlayPopSoundIsNoOp ==
    \/ ~isEnabled \/ isMuted \/ audioContextState = "none" \/ ~isInitialized
    \/ audioContextState = "suspended"

\* playPopSound past its early returns: queue at the limit, else play the
\* theme's file, the classic file, or the synthesized sound.
queueOrPlay(a, bubbleSize, theme) ==
    IF Len(a.active) >= maxSimultaneousSounds
    THEN processQueuedSounds(
            [a EXCEPT !.queue = Append(@, [bubbleSize |-> bubbleSize, theme |-> theme,
                                           timestamp |-> now])])
    ELSE IF isBufferLoaded /\ theme \in loadedThemes
    THEN playAudioFile(a, bubbleSize, theme)
    ELSE IF isBufferLoaded /\ "classic" \in loadedThemes
    THEN playAudioFile(a, bubbleSize, "classic")
    ELSE createPopSound(a, bubbleSize)

playPopSound_IgnoreMute(a, bubbleSize, theme) ==
    IF ~isEnabled \/ audioContextState # "running" \/ ~isInitialized
    THEN a
    ELSE queueOrPlay(a, bubbleSize, theme)

playPopSound(a, bubbleSize, theme) ==
    IF PlayPopSoundIsNoOp THEN a ELSE queueOrPlay(a, bubbleSize, theme)

\* The explored part of the audio state: sounds created and queue length.
AudioBounded(a) == a.counter <= MaxSounds /\ Len(a.queue) <= MaxQueue

\* stopAllSounds: oscillator.stop() for the tracked sounds that have one.
stopAllSounds(a) ==
    [a EXCEPT !.playing = @ \ SeqToSet(a.active),
              !.active = <<>>,
              !.queue = <<>>]

\* Sound objects are named like particles: by their place in activeSounds,
\* then by age among the sounds that are not tracked there.
RECURSIVE SortedSeq(_)
SortedSeq(S) ==
    IF S = {} THEN <<>>
    ELSE LET m == CHOOSE x \in S : \A y \in S : x <= y
         IN  <<m>> \o SortedSeq(S \ {m})

CanonicalAS(a) ==
    LET tracked == SeqToSet(a.active)
        others == (a.playing \cup {t.id : t \in a.timers}) \ tracked
        name == CanonicalIds(a.active \o SortedSeq(others))
    IN  [a EXCEPT !.active = [i \in 1..Len(a.active) |-> name[a.active[i]]],
                  !.playing = {name[id] : id \in a.playing},
                  !.timers = {[t EXCEPT !.id = name[@]] : t \in a.timers},
                  !.counter = Cardinality(tracked \cup others)]

SetAS(a) ==
    LET c == CanonicalAS(a)
    IN  /\ activeSounds' = c.active
        /\ soundQueue' = c.queue
        /\ playing' = c.playing
        /\ timers' = c.timers
        /\ soundCounter' = c.counter
        /\ lastDrain' = c.drain
        /\ audioErrors' = c.errors

audioConfig == <<audioContextState, isEnabled, isMuted, isInitialized,
                 isBufferLoaded, loadedThemes, maxSimultaneousSounds,
                 strictAudioParams, volumeTests>>

\* ---- actions ------------------------------------------------------------
\* State after the constructor.
AudioInit ==
    /\ audioContextState = "none"
    /\ isEnabled = TRUE
    /\ isMuted = FALSE
    /\ isInitialized = FALSE
    /\ isBufferLoaded = FALSE
    /\ loadedThemes = {}
    /\ maxSimultaneousSounds = 5
    /\ activeSounds = <<>>
    /\ soundQueue = <<>>
    /\ now = 0
    /\ playing = {}
    /\ timers = {}
    /\ soundCounter = 0
    /\ strictAudioParams = TRUE
    /\ volumeTests = 0
    /\ lastDrain = NoDrain
    /\ audioErrors = NoErrors

\* init(): without Web Audio support the manager is disabled; otherwise the
\* context is created, each theme's file is decoded or not, and the manager
\* is initialized at once unless the context is suspended.
InitAudio(supported, loaded, state, strict) ==
    /\ audioContextState = "none" /\ isEnabled
    /\ IF ~supported
       THEN /\ isEnabled' = FALSE
            /\ UNCHANGED <<audioContextState, isBufferLoaded, loadedThemes,
                           isInitialized, strictAudioParams>>
       ELSE /\ audioContextState' = state
            /\ strictAudioParams' = strict
            /\ isBufferLoaded' = TRUE
            /\ loadedThemes' = loaded
            /\ isInitialized' = (state = "running")
            /\ UNCHANGED isEnabled
    /\ lastDrain' = NoDrain /\ audioErrors' = NoErrors
    /\ UNCHANGED <<isMuted, maxSimultaneousSounds, activeSounds, soundQueue,
                   now, playing, timers, soundCounter, volumeTests>>

\* resumeAudio, the handler of the first user interaction, installed when
\* init found the context suspended: audioContext.resume() succeeds (ok) or
\* is rejected.
ResumeAudio_ActivatesOnFailure(ok) ==
    /\ audioContextState = "suspended"
    /\ audioContextState' = IF ok THEN "running" ELSE audioContextState
    /\ isInitialized' = TRUE
    /\ lastDrain' = NoDrain /\ audioErrors' = NoErrors
    /\ UNCHANGED <<isEnabled, isMuted, isBufferLoaded, loadedThemes,
                   maxSimultaneousSounds, activeSounds, soundQueue, now,
                   playing, timers, soundCounter, strictAudioParams, volumeTests>>

ResumeAudio(ok) ==
    /\ audioContextState = "suspended"
    /\ audioContextState' = IF ok THEN "running" ELSE audioContextState
    /\ isInitialized' = (ok \/ isInitialized)
    /\ lastDrain' = NoDrain /\ audioErrors' = NoErrors
    /\ UNCHANGED <<isEnabled, isMuted, isBufferLoaded, loadedThemes,
                   maxSimultaneousSounds, activeSounds, soundQueue, now,
                   playing, timers, soundCounter, strictAudioParams, volumeTests>>

PlayPopSound(bubbleSize, theme) ==
    /\ LET a == playPopSound([ASState EXCEPT !.drain = NoDrain, !.errors = NoErrors], bubbleSize, theme)
       IN  /\ a.counter <= MaxSounds
           /\ Len(a.queue) <= MaxQueue
           /\ SetAS(a)
    /\ UNCHANGED <<audioConfig, now>>

\* A cleanup timer fires, at or after its due time; the oscillator of its
\* sound was stopped by the device 100 ms before the due time.
CleanupTimerFires(t) ==
    /\ t \in timers /\ now >= t.due
    /\ SetAS(cleanupSound([ASState EXCEPT !.timers = @ \ {t},
                                          !.playing = @ \ {t.id},
                                          !.drain = NoDrain, !.errors = NoErrors], t.id))
    /\ UNCHANGED <<audioConfig, now>>

\* A started sound reaches its end on the device.
SoundEnds(id) ==
    /\ id \in playing
    /\ SetAS([ASState EXCEPT !.playing = @ \ {id}, !.drain = NoDrain, !.errors = NoErrors])
    /\ UNCHANGED <<audioConfig, now>>

\* forceActivateAudio as startGame calls it, with the context suspended: when
\* the resume succeeds (ok) the manager is initialized and playTestSound
\* runs, which is playPopSound(100, 'classic') for an enabled manager.
ForceActivateAudio(ok) ==
    /\ audioContextState = "suspended"
    /\ audioContextState' = IF ok THEN "running" ELSE audioContextState
    /\ isInitialized' = (ok \/ isInitialized)
    /\ LET a == IF ok /\ isEnabled /\ ~isMuted
                THEN queueOrPlay([ASState EXCEPT !.drain = NoDrain, !.errors = NoErrors], 100, "classic")
                ELSE [ASState EXCEPT !.drain = NoDrain, !.errors = NoErrors]
       IN  /\ AudioBounded(a)
           /\ SetAS(a)
    /\ UNCHANGED <<isEnabled, isMuted, isBufferLoaded, loadedThemes,
                   maxSimultaneousSounds, strictAudioParams, now, volumeTests>>

\* toggleMute: a suspended context is first resumed (ok: the resume
\* succeeds) unless the manager is muted; then the mute flag is flipped and,
\* when it is now set, stopAllSounds runs.
ToggleMute(ok) ==
    /\ IF audioContextState = "suspended" /\ ~isMuted /\ ok
       THEN audioContextState' = "running" /\ isInitialized' = TRUE
       ELSE UNCHANGED <<audioContextState, isInitialized>>
    /\ isMuted' = ~isMuted
    /\ IF ~isMuted
       THEN SetAS(stopAllSounds([ASState EXCEPT !.drain = NoDrain, !.errors = NoErrors]))
       ELSE /\ lastDrain' = NoDrain /\ audioErrors' = NoErrors
            /\ UNCHANGED <<activeSounds, soundQueue, playing, timers, soundCounter>>
    /\ UNCHANGED <<isEnabled, isBufferLoaded, loadedThemes, maxSimultaneousSounds,
                   strictAudioParams, now, volumeTests>>

\* BubbleGame.handleVolumeChange(sliderValue): setVolume, then the mute flag
\* is set at volume 0 and cleared at any other volume, and the test sound is
\* scheduled 100 ms later.
HandleVolumeChange(sliderValue) ==
    /\ volumeTests < MaxVolumeTests
    /\ isMuted' = (sliderValue = 0)
    /\ volumeTests' = volumeTests + 1
    /\ lastDrain' = NoDrain /\ audioErrors' = NoErrors
    /\ UNCHANGED <<audioContextState, isEnabled, isInitialized, isBufferLoaded,
                   loadedThemes, maxSimultaneousSounds, strictAudioParams, now,
                   activeSounds, soundQueue, playing, timers, soundCounter>>

\* The timer of handleVolumeChange fires: playPopSound(150, currentTheme)
\* unless the manager is muted.
VolumeTestFires ==
    /\ volumeTests > 0
    /\ volumeTests' = volumeTests - 1
    /\ LET a == IF isMuted THEN [ASState EXCEPT !.drain = NoDrain, !.errors = NoErrors]
                ELSE playPopSound([ASState EXCEPT !.drain = NoDrain, !.errors = NoErrors], 150, currentTheme)
       IN  /\ a.counter <= MaxSounds
           /\ Len(a.queue) <= MaxQueue
           /\ SetAS(a)
    /\ UNCHANGED <<audioContextState, isEnabled, isMuted, isInitialized, isBufferLoaded,
                   loadedThemes, maxSimultaneousSounds, strictAudioParams, now>>

AudioEnablePerformanceMode(enabled) ==
    /\ maxSimultaneousSounds' = IF enabled THEN 2 ELSE 3
    /\ lastDrain' = NoDrain /\ audioErrors' = NoErrors
    /\ UNCHANGED <<audioContextState, isEnabled, isMuted, isInitialized,
                   isBufferLoaded, loadedThemes, activeSounds, soundQueue, now,
                   playing, timers, soundCounter, strictAudioParams, volumeTests>>

Tick(d) ==
    /\ now + d <= MaxClock
    /\ now' = now + d
    /\ lastDrain' = NoDrain /\ audioErrors' = NoErrors
    /\ UNCHANGED <<audioConfig, activeSounds, soundQueue, playing, timers, soundCounter>>

\* ========================================================================
\* Bubble and BubbleManager
\* ========================================================================
\* The bubble manager, and in wind the wind timer of the physics engine its
\* update is run with.
BMState == [bubbles |-> bubbles, pool |-> bubblePool,
            count |-> activeCount, alloc |-> bubblesAllocated,
            wind |-> lastWindUpdate, interval |-> windUpdateInterval,
            simple |-> simplePhysics, zones |-> breezeZones, timers |-> zoneTimers]

\* new Bubble(x, y, size, lifetime, theme) and resetBubble give the same
\* values to the fields kept here; grace is the grace factor of the last
\* physics update of the bubble (0: none yet).
NewBubble(id, x, y, size, lifetime, theme) ==
    [id |-> id, x |-> x, y |-> y, vx |-> 0, vy |-> 0, size |-> size, age |-> 0,
     lifetime |-> lifetime, isAlive |-> TRUE, opacity |-> 100, theme |-> theme,
     grace |-> 0]

\* BubbleManager.createBubble
createBubble(s, x, y, size, lifetime, theme) ==
    IF Len(s.pool) > 0
    THEN [s EXCEPT !.bubbles = Append(@, NewBubble(Last(s.pool), x, y, size, lifetime, theme)),
                   !.pool = ButLast(@),
                   !.count = @ + 1]
    ELSE [s EXCEPT !.bubbles = Append(@, NewBubble(s.alloc + 1, x, y, size, lifetime, theme)),
                   !.alloc = @ + 1,
                   !.count = @ + 1]

\* Bubble.contains: sqrt(dx*dx + dy*dy) <= radius with radius = size / 2
\* (a point further than the radius along one axis is outside).
contains(b, x, y) ==
    LET dx == x - b.x
        dy == y - b.y
        r == 50 * b.size
    IN  /\ -r <= dx /\ dx <= r /\ -r <= dy /\ dy <= r
        /\ dx * dx + dy * dy <= r * r

\* checkCollision that also returns a bubble that is no longer alive
checkCollision_IgnoreAlive(bs, x, y) ==
    LET hits == {i \in 1..Len(bs) : contains(bs[i], x, y)}
    IN  IF hits = {} THEN 0 ELSE CHOOSE i \in hits : \A j \in hits : i <= j

\* checkCollision returning the last live bubble containing the point
checkCollision_Last(bs, x, y) ==
    LET hits == {i \in 1..Len(bs) : bs[i].isAlive /\ contains(bs[i], x, y)}
    IN  IF hits = {} THEN 0 ELSE CHOOSE i \in hits : \A j \in hits : i >= j

\* BubbleManager.checkCollision: index of the first live bubble containing
\* the point, 0 for null.
checkCollision(bs, x, y) ==
    LET hits == {i \in 1..Len(bs) : bs[i].isAlive /\ contains(bs[i], x, y)}
    IN  IF hits = {} THEN 0 ELSE CHOOSE i \in hits : \A j \in hits : i <= j

\* ---- PhysicsEngine (vertical motion; x and vx stay as they were set) ----
\* dt = Math.min(deltaTime / 16.67, 2), in hundredths of a unit
PhysicsDt(deltaTime) == Min((deltaTime * 100) \div 1667, 200)

\* isInSpawnGracePeriod: maxGraceTime = 2000 ms, margin = 50 px
isInSpawnGracePeriod(b) ==
    IF b.age > 200000 THEN FALSE
    ELSE ~(/\ b.x > -5000 /\ b.x < innerWidth * 100 + 5000
           /\ b.y > -5000 /\ b.y < innerHeight * 100 + 5000)

\* applyBuoyancy: vy += gravity * (1 + size / 100) * graceFactor * dt,
\* gravity = -0.05
applyBuoyancy(b, dtU, g) ==
    [b EXCEPT !.vy = @ - (500 * (100 + b.size) * g * dtU) \div 100000]

\* applyWobble and applyBreeze: their contribution to vy, scaled by the
\* grace factor
applyBreeze(b, push, g) == [b EXCEPT !.vy = @ + Trunc(push * g, 10)]

\* v * Math.pow(0.995, dt): once per whole unit, linearly for the rest
RECURSIVE Drag(_, _)
Drag(v, dtU) ==
    IF dtU >= 100 THEN Drag(Trunc(v * 995, 1000), dtU - 100)
    ELSE v - Trunc(v * 5 * dtU, 100000)

\* applyAirResistance: drag, then the terminal velocity 0.8 + size / 200
applyAirResistance(b, dtU) ==
    LET maxSpeed == 8000 + 50 * b.size
    IN  [b EXCEPT !.vy = Clamp(Drag(@, dtU), -maxSpeed, maxSpeed)]

\* handleBoundaries: above y = margin the bubble is pushed down by
\* (margin - y) * 0.001
handleBoundaries(b) ==
    IF b.y < 5000 THEN [b EXCEPT !.vy = @ + Trunc(5000 - b.y, 10)] ELSE b

\* PhysicsEngine.updateBubble
updateBubble(b, deltaTime, push) ==
    LET dtU == PhysicsDt(deltaTime)
        g == IF isInSpawnGracePeriod(b) THEN 1 ELSE 10
        f == applyAirResistance(applyBreeze(applyBuoyancy(b, dtU, g), push, g), dtU)
        m == [f EXCEPT !.y = @ + Trunc(f.vy * dtU, 10000), !.grace = g]
    IN  handleBoundaries(m)

\* The position update of Bubble.update. With a physics engine it is the call
\* physicsEngine.updateBubble(this, deltaTime, speedMultiplier) of a method
\* declared as updateBubble(bubble, deltaTime): the third argument is not
\* read. Without an engine the fallback adds vy * speedMultiplier (hundredths).
moveBubble(b, deltaTime, physicsEngine, speedMultiplier, push) ==
    IF physicsEngine THEN updateBubble(b, deltaTime, push)
    ELSE [b EXCEPT !.y = @ + Trunc(b.vy * speedMultiplier, 10000)]

\* The late-life fade of Bubble.update computed at every age
fade_Always(b) ==
    [b EXCEPT !.opacity = 100 - Trunc((100 * b.age - 92 * b.lifetime) * 100, 8 * b.lifetime)]

\* The late-life fade of Bubble.update: lifetimeRatio = age / lifetime;
\* if (lifetimeRatio > 0.92) opacity = 1 - (lifetimeRatio - 0.92) / 0.08
fade(b) ==
    IF 100 * b.age > 92 * b.lifetime
    THEN [b EXCEPT !.opacity = 100 - ((100 * b.age - 92 * b.lifetime) * 100) \div (8 * b.lifetime)]
    ELSE b

\* Bubble.update that lets a bubble live through the update in which its
\* age equals its lifetime
bubbleUpdate_ExpiresLate(b, dt, push) ==
    IF ~b.isAlive THEN b
    ELSE LET aged == [b EXCEPT !.age = @ + dt]
         IN  IF aged.age > aged.lifetime
             THEN [aged EXCEPT !.isAlive = FALSE]
             ELSE LET m == fade(moveBubble(aged, dt, TRUE, bubbleSpeedMultiplier, push))
                  IN  [m EXCEPT !.isAlive =
                          ~(m.x < -10000 \/ m.x > innerWidth * 100 + 10000 \/
                            m.y < -10000 \/ m.y > innerHeight * 100 + 10000)]

\* Bubble.update that also advances a dead bubble
bubbleUpdate_NoAliveCheck(b, dt, push) ==
    LET aged == [b EXCEPT !.age = @ + dt]
    IN  IF aged.age >= aged.lifetime
        THEN [aged EXCEPT !.isAlive = FALSE]
        ELSE LET m == fade(moveBubble(aged, dt, TRUE, bubbleSpeedMultiplier, push))
             IN  [m EXCEPT !.isAlive =
                     /\ b.isAlive
                     /\ ~(m.x < -10000 \/ m.x > innerWidth * 100 + 10000 \/
                          m.y < -10000 \/ m.y > innerHeight * 100 + 10000)]

\* Bubble.update: a dead bubble is left alone; age advances; the bubble
\* expires at its lifetime; otherwise the physics engine moves it, it fades,
\* and it dies when it is more than 100 px outside the window.
bubbleUpdate(b, dt, push) ==
    IF ~b.isAlive THEN b
    ELSE LET aged == [b EXCEPT !.age = @ + dt]
         IN  IF aged.age >= aged.lifetime
             THEN [aged EXCEPT !.isAlive = FALSE]
             ELSE LET m == fade(moveBubble(aged, dt, TRUE, bubbleSpeedMultiplier, push))
                  IN  [m EXCEPT !.isAlive =
                          ~(m.x < -10000 \/ m.x > innerWidth * 100 + 10000 \/
                            m.y < -10000 \/ m.y > innerHeight * 100 + 10000)]

\* BubbleManager.removeBubble without the splice
removeBubble_NoSplice(s, index) ==
    [s EXCEPT !.pool = Append(@, s.bubbles[index].id),
              !.count = @ - 1]

\* BubbleManager.removeBubble
removeBubble(s, index) ==
    [s EXCEPT !.bubbles = SubSeq(s.bubbles, 1, index - 1) \o
                          SubSeq(s.bubbles, index + 1, Len(s.bubbles)),
              !.pool = Append(@, s.bubbles[index].id),
              !.count = @ - 1]

\* windUpdateInterval of the constructor, in hundredths of a millisecond
WindUpdateInterval == 300000
\* windUpdateInterval set by enableSimplePhysics(true)
SimpleWindUpdateInterval == 500000

\* zoneCount of generateBreezeZones: 4 + Math.floor(Math.random() * 3)
ZoneCounts == {4}

\* generateBreezeZones with the draw n of zoneCount
generateBreezeZones(n) == [i \in 1..n |-> 0]

\* PhysicsEngine.updateBounds: the breeze zones are regenerated (the size is
\* kept by the game as innerWidth and innerHeight)
updateBounds(s, n) == [s EXCEPT !.zones = generateBreezeZones(n)]

\* PhysicsEngine.enableSimplePhysics
enableSimplePhysics(s, enabled) ==
    IF enabled
    THEN [s EXCEPT !.simple = TRUE,
                   !.zones = SubSeq(@, 1, Min(2, Len(@))),
                   !.interval = SimpleWindUpdateInterval]
    ELSE [s EXCEPT !.simple = FALSE]

\* PhysicsEngine.createTurbulence: the zone is pushed and its timer set; the
\* zone object is named by the smallest number no zone or timer bears
createTurbulence(s) ==
    LET used == {s.zones[i] : i \in 1..Len(s.zones)} \cup s.timers
        k == CHOOSE n \in 1..(Cardinality(used) + 1) : n \notin used
    IN  [s EXCEPT !.zones = Append(@, k), !.timers = @ \cup {k}]

\* breezeZones.indexOf(tempZone), 0 for -1
ZoneIndex(zones, k) ==
    LET at == {i \in 1..Len(zones) : zones[i] = k}
    IN  IF at = {} THEN 0 ELSE CHOOSE i \in at : \A j \in at : i <= j

\* the timer callback of createTurbulence without the test of the index:
\* splice(-1, 1) takes the last zone
turbulenceExpires_NoIndexCheck(s, k) ==
    LET index == IF ZoneIndex(s.zones, k) = 0 THEN Len(s.zones) ELSE ZoneIndex(s.zones, k)
    IN  [s EXCEPT !.zones = SubSeq(s.zones, 1, index - 1) \o
                            SubSeq(s.zones, index + 1, Len(s.zones)),
                  !.timers = @ \ {k}]

\* the timer callback of createTurbulence for zone k
turbulenceExpires(s, k) ==
    LET index == ZoneIndex(s.zones, k)
    IN  IF index > 0
        THEN [s EXCEPT !.zones = SubSeq(s.zones, 1, index - 1) \o
                                 SubSeq(s.zones, index + 1, Len(s.zones)),
                       !.timers = @ \ {k}]
        ELSE [s EXCEPT !.timers = @ \ {k}]

\* updateEnvironmentalForces(deltaTime): the wind timer after the call; at
\* the interval a new wind pattern is generated and the timer restarts.
updateEnvironmentalForces(wind, deltaTime) ==
    IF wind + deltaTime >= windUpdateInterval THEN 0 ELSE wind + deltaTime

\* Bubble.update reaches physicsEngine.updateBubble, whose first statement
\* is updateEnvironmentalForces(deltaTime), for a bubble that is alive and
\* does not expire in this update.
ReachesPhysics(b, dt) == b.isAlive /\ b.age + dt < b.lifetime

\* the wind timer after Bubble.update of b
windAfterBubble(wind, b, dt) ==
    IF ReachesPhysics(b, dt) THEN updateEnvironmentalForces(wind, dt) ELSE wind

\* BubbleManager.update that removes only the bubbles that died in this call
RECURSIVE bubblesUpdateFrom_KeepPopped(_, _, _, _)
bubblesUpdateFrom_KeepPopped(s, i, dt, pushes) ==
    IF i = 0 THEN s
    ELSE LET b == bubbleUpdate(s.bubbles[i], dt, pushes[i])
             t == [s EXCEPT !.bubbles[i] = b,
                            !.wind = windAfterBubble(@, s.bubbles[i], dt)]
         IN  IF ~b.isAlive /\ s.bubbles[i].isAlive
             THEN bubblesUpdateFrom_KeepPopped(removeBubble(t, i), i - 1, dt, pushes)
             ELSE bubblesUpdateFrom_KeepPopped(t, i - 1, dt, pushes)

\* BubbleManager.update: from the last index down to the first.
RECURSIVE bubblesUpdateFrom(_, _, _, _)
bubblesUpdateFrom(s, i, dt, pushes) ==
    IF i = 0 THEN s
    ELSE LET b == bubbleUpdate(s.bubbles[i], dt, pushes[i])
             t == [s EXCEPT !.bubbles[i] = b,
                            !.wind = windAfterBubble(@, s.bubbles[i], dt)]
         IN  IF ~b.isAlive
             THEN bubblesUpdateFrom(removeBubble(t, i), i - 1, dt, pushes)
             ELSE bubblesUpdateFrom(t, i - 1, dt, pushes)

bubbleManagerUpdate(s, dt, pushes) == bubblesUpdateFrom(s, Len(s.bubbles), dt, pushes)

\* BubbleManager.popBubble
popBubble(s, index) == [s EXCEPT !.bubbles[index].isAlive = FALSE]

CanonicalBM(t) ==
    LET ids == [i \in 1..Len(t.bubbles) |-> t.bubbles[i].id] \o t.pool
        name == CanonicalIds(ids)
    IN  [t EXCEPT !.bubbles = [i \in 1..Len(t.bubbles) |->
                                 [t.bubbles[i] EXCEPT !.id = name[@]]],
                  !.pool = [i \in 1..Len(t.pool) |-> name[t.pool[i]]]]

SetBM(t) ==
    LET c == CanonicalBM(t)
    IN  /\ bubbles' = c.bubbles
        /\ bubblePool' = c.pool
        /\ activeCount' = c.count
        /\ bubblesAllocated' = c.alloc
        /\ lastWindUpdate' = c.wind
        /\ windUpdateInterval' = c.interval
        /\ simplePhysics' = c.simple
        /\ breezeZones' = c.zones
        /\ zoneTimers' = c.timers

\* ========================================================================
\* BubbleGame
\* ========================================================================
\* getSafeSpawnZones: adZones.left = 180 + 20, adZones.bottom = 100 + 20
LeftSafeZone == 180 + 20
BottomSafeZone == 100 + 20
SafeWidth == innerWidth - LeftSafeZone
BottomEdge == innerHeight - BottomSafeZone
SpawnDistance == 30

\* Position of a spawnBubble bubble on the edge side, pct percent along it.
SpawnPosition(side, pct) ==
    IF side = 0 THEN <<100 * LeftSafeZone + pct * SafeWidth, 100 * (innerHeight + SpawnDistance)>>
    ELSE IF side = 1 THEN <<-100 * SpawnDistance, pct * innerHeight>>
    ELSE <<100 * (innerWidth + SpawnDistance), pct * innerHeight>>

\* Position of a spawnInitialBubbles bubble (padding = 100).
InitialPosition(pct) ==
    <<100 * (LeftSafeZone + 100) + pct * (SafeWidth - 200),
      100 * 100 - pct * (BottomEdge + 200 - innerHeight)>>

\* Pointer positions delivered by the input source: where bubbles are
\* spawned, and off the canvas (mouseX, mouseY of a pointer that has not
\* entered it).
PointerPoints ==
    {SpawnPosition(side, pct) : side \in SpawnSides, pct \in SpawnPercents}
    \cup {InitialPosition(pct) : pct \in SpawnPercents}
NoPointer == <<-100000, -100000>>
HoverPoints == PointerPoints \cup {NoPointer}

\* Initial vy of spawnBubble: -baseSpeed * randomSpeed on the bottom edge
\* (baseSpeed = 0.8), -0.2 - random * 0.3 on the side edges.
SpawnVy(side, speed) == IF side = 0 THEN -(800 * speed) ELSE -2000 - 300 * speed

\* Initial vx of spawnBubble: baseSpeed * randomSpeed * 1.5 into the window
\* on the side edges; on the bottom edge the drift (random - 0.5) * 0.3 at
\* its middle.
SpawnVx(side, speed) ==
    IF side = 0 THEN 0 ELSE IF side = 1 THEN 1200 * speed ELSE -(1200 * speed)

\* the edge of spawnBubble with the thresholds of the side edges exchanged
\* for one another
spawnSide_SidesSwapped(randomValue) ==
    IF randomValue < 80 THEN 0 ELSE IF randomValue < 90 THEN 2 ELSE 1

\* the edge spawnBubble takes for its draw randomValue (hundredths)
spawnSide(randomValue) ==
    IF randomValue < 80 THEN 0 ELSE IF randomValue < 90 THEN 1 ELSE 2

\* spawnBubble: one bubble with the current theme on the drawn edge, then its
\* initial velocity.
spawnBubble(s, side, pct, size, lifetime, theme, speed) ==
    LET pos == SpawnPosition(side, pct)
        t == createBubble(s, pos[1], pos[2], size, lifetime, theme)
    IN  [t EXCEPT !.bubbles[Len(t.bubbles)].vx = SpawnVx(side, speed),
                  !.bubbles[Len(t.bubbles)].vy = SpawnVy(side, speed)]

\* spawnInitialBubbles: initialBubbleCount bubbles, whatever the active count.
RECURSIVE spawnInitialBubbles(_, _, _, _, _, _)
spawnInitialBubbles(s, n, pct, size, lifetime, theme) ==
    IF n <= 0 THEN s
    ELSE LET pos == InitialPosition(pct)
         IN  spawnInitialBubbles(createBubble(s, pos[1], pos[2], size, lifetime, theme),
                                 n - 1, pct, size, lifetime, theme)

\* Value from which lastSpawnTime is no longer told apart: it is only compared
\* with a spawn delay, which is at most spawnRate + spawnRateVariation / 2.
SpawnTimeCap == (800 + 1000 \div 2) * 100

\* updateBubbleSpawning: [due, spawn] for the elapsed time and the count.
SpawnDelayNow(count) ==
    LET belowTarget == 10 * count < 8 * configMaxBubbles
        d1 == IF belowTarget THEN (nextSpawnDelay * 3) \div 10 ELSE nextSpawnDelay
    IN  IF belowTarget /\ bubbleDensityMultiplier >= 300 THEN d1 \div 2 ELSE d1

\* updateBubbleSpawning that spawns whenever the delay has elapsed
spawnTriggered_NoCapacityCheck(elapsed, count) ==
    elapsed >= SpawnDelayNow(count)

\* updateBubbleSpawning: spawnBubble() is called when the delay has elapsed
\* and the active count is below config.maxBubbles.
spawnTriggered(elapsed, count) ==
    elapsed >= SpawnDelayNow(count) /\ count < configMaxBubbles

\* handleBubbleInteraction on the bubble manager: the hit bubble is marked
\* dead, then spawnReplacementBubble reads getActiveCount().
NoInteraction == [hit |-> FALSE]

InteractionRecord(s, i, triggerTheme, replaced) ==
    [hit |-> TRUE,
     size |-> s.bubbles[i].size,
     bubbleTheme |-> s.bubbles[i].theme,
     triggerCalls |-> 1,
     triggerSize |-> s.bubbles[i].size,
     triggerTheme |-> triggerTheme,
     \* at the capacity check of the replacement spawn:
     countRead |-> s.count,
     liveCount |-> Cardinality({j \in 1..Len(s.bubbles) : j # i /\ s.bubbles[j].isAlive}),
     poppedAlive |-> s.bubbles[i].isAlive,
     poppedReleased |-> s.bubbles[i].id \in SeqToSet(s.pool),
     poppedListed |-> \E j \in 1..Len(s.bubbles) : s.bubbles[j].id = s.bubbles[i].id,
     maxBubbles |-> configMaxBubbles,
     replaced |-> replaced]

\* densityLevel -> bubbleDensityMultiplier (hundredths)
DensityMultiplier(level) ==
    IF level = 0 THEN 20
    ELSE IF level <= 5 THEN 20 + level * 16
    ELSE 100 + (level - 5) * 100

NoLoop == [ran |-> FALSE, skipped |-> FALSE]

\* BubbleGame constructor: the game loop fields.
LoopInit ==
    /\ isRunning = FALSE
    /\ isPaused = FALSE
    /\ lastTime = 0
    /\ perfNow = 0
    /\ pendingFrames = 0
    /\ pausedSince = 0
    /\ pausedTotal = 0
    /\ lastLoop = NoLoop

NoSimulation == [time |-> 0, fine |-> FALSE, spawned |-> FALSE, reused |-> FALSE,
                 origin |-> <<0, 0>>, popped |-> FALSE, removed |-> 0, draw |-> 0]

SimulationInit == simulation = NoSimulation

GameInit ==
    /\ bubbles = <<>>
    /\ bubblePool = <<>>
    /\ activeCount = 0
    /\ bubblesAllocated = 0
    /\ lastWindUpdate = 0
    /\ windUpdateInterval = WindUpdateInterval
    /\ simplePhysics = FALSE
    /\ breezeZones \in {generateBreezeZones(n) : n \in ZoneCounts}
    /\ zoneTimers = {}
    /\ configMaxBubbles = BaseBubbles
    /\ configInitialBubbleCount = BaseInitialBubbles
    /\ innerWidth = ViewWidth
    /\ innerHeight = ViewHeight
    /\ bubbleDensityMultiplier = 100
    /\ bubbleSpeedMultiplier = 100
    /\ currentTheme = "classic"
    /\ gameStarted = FALSE
    /\ lastSpawnTime = 0
    /\ nextSpawnDelay \in SpawnDelays
    /\ popCount = 0
    /\ lastInteraction = NoInteraction

\* BubbleGame.init has returned: it awaits AudioManager.init first.
SystemsReady == audioContextState # "none" \/ ~isEnabled

\* handleBubbleInteraction(x, y) as a step on all three subsystems; pos is the
\* pointer position, the other arguments are the draws of the replacement spawn.
handleBubbleInteraction(pos, side, pct, size, lifetime, dropletLife, speed) ==
    LET i == checkCollision(bubbles, pos[1], pos[2])
    IN  IF i = 0
        THEN /\ lastInteraction' = NoInteraction
             /\ lastPop' = NoPop
             /\ lastDrain' = NoDrain /\ audioErrors' = NoErrors
             /\ UNCHANGED <<bubbleVars, popCount>>
             /\ UNCHANGED <<particles, particlePool, activeParticles, particlesAllocated>>
             /\ UNCHANGED <<activeSounds, soundQueue, playing, timers, soundCounter>>
        ELSE LET b == bubbles[i]
                 ps == createPopEffect(PSState, b.size, dropletLife, maxParticles,
                                       baseParticleCount, qualityLevel)
                 as == playPopSound([ASState EXCEPT !.drain = NoDrain, !.errors = NoErrors], b.size, currentTheme)
                 \* an exception out of playPopSound ends the handler here
                 popped == IF as.errors.escaped THEN BMState ELSE popBubble(BMState, i)
                 replace == ~as.errors.escaped /\ popped.count < configMaxBubbles
                 bm == IF replace
                       THEN spawnBubble(popped, side, pct, size, lifetime, currentTheme, speed)
                       ELSE popped
             IN  /\ popCount' = Min(popCount + 1, 1)
                 /\ SetPS(ps)
                 /\ lastPop' = PopRecord(PSState, ps, b.size, maxParticles,
                                         baseParticleCount, qualityLevel)
                 /\ AudioBounded(as)
                 /\ SetAS(as)
                 /\ SetBM(bm)
                 /\ lastInteraction' = InteractionRecord(popped, i, currentTheme, replace)

particleConfig == <<maxParticles, qualityLevel, baseParticleCount, performanceMode>>
gameConfig == <<configMaxBubbles, configInitialBubbleCount, bubbleDensityMultiplier, bubbleSpeedMultiplier,
                innerWidth, innerHeight, currentTheme, gameStarted>>

\* A touchstart / touchmove event on the canvas: the listener calls
\* onBubbleHover, which is handleBubbleInteraction.
TouchInteraction(pos, side, pct, size, lifetime, dropletLife, speed) ==
    /\ SystemsReady
    /\ handleBubbleInteraction(pos, side, pct, size, lifetime, dropletLife, speed)
    /\ UNCHANGED <<particleConfig, audioConfig, now, gameConfig, lastSpawnTime, nextSpawnDelay>>
    /\ lastLoop' = NoLoop
    /\ UNCHANGED <<isRunning, isPaused, lastTime, perfNow, pendingFrames, pausedSince,
                   pausedTotal, simVars>>

\* BubbleGame.start
start ==
    IF ~isRunning
    THEN /\ isRunning' = TRUE
         /\ isPaused' = FALSE
         /\ lastTime' = perfNow
         /\ pausedSince' = 0
         /\ pendingFrames' = pendingFrames + 1
    ELSE UNCHANGED <<isRunning, isPaused, lastTime, pausedSince, pendingFrames>>

\* startGame
StartGame(pct, size, lifetime) ==
    /\ SystemsReady
    /\ Len(bubbles) + configInitialBubbleCount <= MaxBubbleObjects
    /\ soundCounter + 2 <= MaxSounds \/ audioContextState # "suspended"
    /\ gameStarted' = TRUE
    /\ popCount' = 0
    /\ SetBM(spawnInitialBubbles(BMState, configInitialBubbleCount, pct, size,
                                 lifetime, currentTheme))
    \* forceActivateAudio: resume, then playTestSound -> playPopSound(100, 'classic')
    /\ IF audioContextState = "suspended"
       THEN /\ audioContextState' = "running"
            /\ isInitialized' = TRUE
            /\ LET a == [ASState EXCEPT !.drain = NoDrain, !.errors = NoErrors]
               IN  SetAS(IF ~isEnabled \/ isMuted THEN a
                         ELSE queueOrPlay(a, 100, "classic"))
       ELSE /\ lastDrain' = NoDrain /\ audioErrors' = NoErrors
            /\ UNCHANGED <<audioContextState, isInitialized, activeSounds,
                           soundQueue, playing, timers, soundCounter>>
    /\ lastInteraction' = NoInteraction
    /\ lastPop' = NoPop
    /\ UNCHANGED <<isEnabled, isMuted, isBufferLoaded, loadedThemes,
                   maxSimultaneousSounds, strictAudioParams, now, volumeTests>>
    /\ UNCHANGED <<particles, particlePool, activeParticles, particlesAllocated, particleConfig>>
    /\ UNCHANGED <<configMaxBubbles, configInitialBubbleCount, bubbleDensityMultiplier, bubbleSpeedMultiplier,
                   innerWidth, innerHeight, currentTheme, lastSpawnTime, nextSpawnDelay>>
    /\ start
    /\ lastLoop' = NoLoop
    /\ UNCHANGED <<perfNow, pausedTotal, simVars>>

\* Array.prototype.sort((a, b) => b.size - a.size): larger first, bubbles of
\* one size in their previous order.
RECURSIVE SortBySize(_)
SortBySize(bs) ==
    IF bs = <<>> THEN <<>>
    ELSE LET sorted == SortBySize(ButLast(bs))
             b == Last(bs)
             k == Cardinality({i \in 1..Len(sorted) : sorted[i].size >= b.size})
         IN  SubSeq(sorted, 1, k) \o <<b>> \o SubSeq(sorted, k + 1, Len(sorted))

\* Bubble.render draws the bubble unless (!isAlive || opacity <= 0).
Drawn(b) == b.isAlive /\ b.opacity > 0

\* BubbleManager.render: the active list is sorted in place, then drawn.
bubbleManagerRender(s) == [s EXCEPT !.bubbles = SortBySize(@)]

\* One unpaused frame: update(deltaTime) = updateBubbleSpawning,
\* bubbleManager.update, particleSystem.update, inputHandler.update (which
\* runs the hover check at the mouse position on a device without touch),
\* then render().
Frame(dt, push, speed, side, pct, size, lifetime, delay, hover, off, rside, rsize, dropletLife) ==
    /\ SystemsReady /\ gameStarted
    /\ isRunning /\ ~isPaused
    /\ LET elapsed == Min(lastSpawnTime + dt, SpawnTimeCap)
           spawn == spawnTriggered(elapsed, activeCount)
           bm1 == IF spawn
                  THEN spawnBubble(BMState, side, pct, size, lifetime, currentTheme, speed)
                  ELSE BMState
           mv == [i \in 1..Len(bm1.bubbles) |-> push]
           bm2 == bubbleManagerUpdate(bm1, dt, mv)
           ps2 == particleUpdate(PSState, dt, off)
           i == checkCollision(bm2.bubbles, hover[1], hover[2])
       IN  /\ lastSpawnTime' = IF spawn THEN 0 ELSE elapsed
           /\ nextSpawnDelay' = IF spawn THEN delay ELSE nextSpawnDelay
           /\ IF i = 0
              THEN /\ SetBM(bubbleManagerRender(bm2))
                   /\ SetPS(ps2)
                   /\ lastPop' = NoPop
                   /\ lastDrain' = NoDrain /\ audioErrors' = NoErrors
                   /\ lastInteraction' = NoInteraction
                   /\ UNCHANGED <<activeSounds, soundQueue, playing, timers, soundCounter, popCount>>
              ELSE LET b == bm2.bubbles[i]
                       ps3 == createPopEffect(ps2, b.size, dropletLife, maxParticles,
                                              baseParticleCount, qualityLevel)
                       as == playPopSound([ASState EXCEPT !.drain = NoDrain, !.errors = NoErrors], b.size, currentTheme)
                       popped == IF as.errors.escaped THEN bm2 ELSE popBubble(bm2, i)
                       replace == ~as.errors.escaped /\ popped.count < configMaxBubbles
                       bm3 == IF replace
                              THEN spawnBubble(popped, rside, pct, rsize, lifetime,
                                               currentTheme, speed)
                              ELSE popped
                   IN  /\ popCount' = Min(popCount + 1, 1)
                       /\ SetPS(ps3)
                       /\ lastPop' = PopRecord(ps2, ps3, b.size, maxParticles,
                                               baseParticleCount, qualityLevel)
                       /\ AudioBounded(as)
                       /\ SetAS(as)
                       /\ SetBM(bubbleManagerRender(bm3))
                       /\ lastInteraction' = InteractionRecord(popped, i, currentTheme, replace)
    /\ UNCHANGED <<particleConfig, audioConfig, now, gameConfig>>

\* pause (handleVisibilityChange with document.hidden)
Pause ==
    /\ isPaused' = TRUE
    /\ lastLoop' = NoLoop
    /\ UNCHANGED <<isRunning, lastTime, perfNow, pendingFrames, pausedSince, pausedTotal>>
    /\ UNCHANGED <<particleVars, audioVars, bubbleVars, gameVars, simVars>>

\* resume that leaves lastTime as it is
resume_KeepLastTime ==
    IF isPaused
    THEN /\ isPaused' = FALSE
         /\ UNCHANGED <<lastTime, pausedSince>>
    ELSE UNCHANGED <<isPaused, lastTime, pausedSince>>

\* resume
resume ==
    IF isPaused
    THEN /\ isPaused' = FALSE
         /\ lastTime' = perfNow
         /\ pausedSince' = 0
    ELSE UNCHANGED <<isPaused, lastTime, pausedSince>>

\* resume (handleVisibilityChange with the document visible again)
Resume ==
    /\ resume
    /\ lastLoop' = NoLoop
    /\ UNCHANGED <<isRunning, perfNow, pendingFrames, pausedTotal>>
    /\ UNCHANGED <<particleVars, audioVars, bubbleVars, gameVars, simVars>>

\* stop: the pending frame request is left as it is
Stop ==
    /\ isRunning' = FALSE
    /\ isPaused' = FALSE
    /\ lastLoop' = NoLoop
    /\ UNCHANGED <<lastTime, perfNow, pendingFrames, pausedSince, pausedTotal>>
    /\ UNCHANGED <<particleVars, audioVars, bubbleVars, gameVars, simVars>>

\* performance.now() advances by d between two events.
PerfTick(d) ==
    /\ perfNow + d <= MaxPerfClock
    /\ perfNow' = perfNow + d
    /\ pausedSince' = IF isRunning /\ isPaused THEN pausedSince + d ELSE pausedSince
    /\ pausedTotal' = IF isRunning /\ isPaused THEN pausedTotal + d ELSE pausedTotal
    /\ lastLoop' = NoLoop
    /\ UNCHANGED <<isRunning, isPaused, lastTime, pendingFrames>>
    /\ UNCHANGED <<particleVars, audioVars, bubbleVars, gameVars, simVars>>

\* the calls of a running gameLoop with render() ahead of update()
gameLoopCalls_RenderFirst(paused) ==
    IF paused THEN <<"requestAnimationFrame">>
    ELSE <<"render", "updateBubbleSpawning", "bubbleManager.update", "particleSystem.update",
           "inputHandler.update", "requestAnimationFrame">>

\* The calls a running gameLoop makes, in their order, those of update()
\* in its place (the performance monitor left out).
gameLoopCalls(paused) ==
    IF paused THEN <<"requestAnimationFrame">>
    ELSE <<"updateBubbleSpawning", "bubbleManager.update", "particleSystem.update",
           "inputHandler.update", "render", "requestAnimationFrame">>

\* gameLoop(currentTime), the requestAnimationFrame callback, with
\* currentTime = performance.now(): deltaTime, lastTime, then either the
\* paused return or update(deltaTime) and render(); both request the next
\* frame.
GameLoop(push, speed, side, pct, size, lifetime, delay, hover, off, rside, rsize, dropletLife) ==
    /\ pendingFrames > 0
    /\ IF ~isRunning
       THEN \* the callback returns at once and requests nothing
            /\ pendingFrames' = pendingFrames - 1
            /\ lastLoop' = NoLoop
            /\ UNCHANGED <<lastTime, pausedSince>>
            /\ UNCHANGED <<particleVars, audioVars, bubbleVars, gameVars>>
       ELSE LET deltaTime == perfNow - lastTime
            IN  /\ lastTime' = perfNow
                /\ pausedSince' = 0
                /\ pendingFrames' = pendingFrames
                /\ lastLoop' = [ran |-> ~isPaused, skipped |-> isPaused, delta |-> deltaTime,
                                paused |-> pausedSince, pausedBefore |-> pausedTotal,
                                calls |-> gameLoopCalls(isPaused),
                                \* when the callback began:
                                count |-> activeCount,
                                due |-> lastSpawnTime >= nextSpawnDelay]
                /\ IF isPaused
                   THEN UNCHANGED <<particleVars, audioVars, bubbleVars, gameVars>>
                   ELSE Frame(deltaTime, push, speed, side, pct, size, lifetime, delay, hover,
                              off, rside, rsize, dropletLife)
    /\ UNCHANGED <<isRunning, isPaused, perfNow, pausedTotal, simVars>>

\* handleDensityChange
HandleDensityChange(level) ==
    /\ SystemsReady
    /\ bubbleDensityMultiplier' = DensityMultiplier(level)
    /\ configMaxBubbles' = RoundDiv(BaseBubbles * DensityMultiplier(level), 100)
    /\ configInitialBubbleCount' = RoundDiv(BaseInitialBubbles * DensityMultiplier(level), 100)
    /\ lastInteraction' = NoInteraction
    /\ UNCHANGED <<bubbleSpeedMultiplier, innerWidth, innerHeight, currentTheme, gameStarted,
                   lastSpawnTime, nextSpawnDelay, popCount>>
    /\ UNCHANGED <<bubbleVars, particleVars, audioVars, loopVars, simVars>>

\* the positions of the speed slider
SpeedLevels == 0..10

\* speedLevel -> bubbleSpeedMultiplier (hundredths): 0.1 + speedLevel * 0.19
SpeedMultiplier(level) == IF level = 0 THEN 10 ELSE 10 + level * 19

\* handleSpeedChange(sliderValue)
HandleSpeedChange(level) ==
    /\ bubbleSpeedMultiplier' = SpeedMultiplier(level)
    /\ lastInteraction' = NoInteraction
    /\ UNCHANGED <<configMaxBubbles, configInitialBubbleCount, bubbleDensityMultiplier,
                   innerWidth, innerHeight, currentTheme, gameStarted, lastSpawnTime,
                   nextSpawnDelay, popCount>>
    /\ UNCHANGED <<bubbleVars, particleVars, audioVars, loopVars, simVars>>

\* handleResize: the game and the physics engine (updateBounds) take the new
\* window size.
HandleResize(size, zoneCount) ==
    /\ SetBM(updateBounds(BMState, zoneCount))
    /\ innerWidth' = size[1]
    /\ innerHeight' = size[2]
    /\ lastInteraction' = NoInteraction
    /\ UNCHANGED <<configMaxBubbles, configInitialBubbleCount, bubbleDensityMultiplier, bubbleSpeedMultiplier,
                   currentTheme, gameStarted, lastSpawnTime, nextSpawnDelay, popCount>>
    /\ UNCHANGED <<particleVars, audioVars, loopVars>>
    /\ simulation' = [simulation EXCEPT !.removed = 0]

\* physicsEngine.createTurbulence(x, y, radius, strength, duration)
CreateTurbulence ==
    /\ SetBM(createTurbulence(BMState))
    /\ UNCHANGED <<particleVars, audioVars, gameVars, loopVars, simVars>>

\* the setTimeout callback of createTurbulence for zone k runs
TurbulenceExpires(k) ==
    /\ k \in zoneTimers
    /\ SetBM(turbulenceExpires(BMState, k))
    /\ UNCHANGED <<particleVars, audioVars, gameVars, loopVars, simVars>>

\* physicsEngine.enableSimplePhysics(enabled)
EnableSimplePhysics(enabled) ==
    /\ SetBM(enableSimplePhysics(BMState, enabled))
    /\ UNCHANGED <<particleVars, audioVars, gameVars, loopVars, simVars>>

\* handleThemeChange: the loop over the bubbles tests bubble.active, a field
\* no Bubble has, so no bubble receives the new theme.
HandleThemeChange(themeName) ==
    /\ SystemsReady
    /\ themeName \in Themes
    /\ currentTheme' = themeName
    /\ lastInteraction' = NoInteraction
    /\ UNCHANGED <<configMaxBubbles, configInitialBubbleCount, bubbleDensityMultiplier, bubbleSpeedMultiplier,
                   innerWidth, innerHeight, gameStarted, lastSpawnTime, nextSpawnDelay,
                   popCount>>
    /\ UNCHANGED <<bubbleVars, particleVars, audioVars, loopVars, simVars>>

\* ------------------------------------------------------------------------
\* The bubble manager on its own: one bubble at a time is created, simulated
\* with the physics engine at the frame rate of the run, and possibly popped.
\* ------------------------------------------------------------------------
\* new PhysicsEngine(width, height): lastWindUpdate = 0, the constructor's
\* interval and zones; the timers of the engine it replaces hold that
\* engine's zones
PhysicsEngineNew(s) ==
    [s EXCEPT !.wind = 0, !.interval = WindUpdateInterval, !.simple = FALSE,
              !.zones = generateBreezeZones(Len(s.zones)), !.timers = {}]

\* The engine handed to BubbleManager.update in a run: a run that begins on
\* an empty manager gets a new engine.
RunEngine(s) == IF s.bubbles = <<>> THEN PhysicsEngineNew(s) ELSE s

\* bubbleManager.createBubble(x, y, size, lifetime, theme)
CreateBubble(x, y, size, lifetime, fine) ==
    /\ SetBM(createBubble(RunEngine(BMState), x, y, size, lifetime, currentTheme))
    /\ simulation' = [time |-> 0, fine |-> fine, spawned |-> FALSE,
                      reused |-> Len(bubblePool) > 0, origin |-> <<x, y>>,
                      popped |-> FALSE, removed |-> 0, draw |-> 0]

\* spawnBubble()
SpawnBubble(randomValue, pct, size, lifetime, speed, fine) ==
    /\ SetBM(spawnBubble(RunEngine(BMState), spawnSide(randomValue), pct, size, lifetime,
                         currentTheme, speed))
    /\ simulation' = [time |-> 0, fine |-> fine, spawned |-> TRUE,
                      reused |-> Len(bubblePool) > 0,
                      origin |-> SpawnPosition(spawnSide(randomValue), pct),
                      popped |-> FALSE, removed |-> 0, draw |-> randomValue]

\* bubbleManager.update(deltaTime, physicsEngine)
BubblesUpdate(dt, push) ==
    /\ simulation.time + dt <= MaxSimTime
    /\ LET bm == bubbleManagerUpdate(BMState, dt, [i \in 1..Len(bubbles) |-> push])
       IN  /\ SetBM(bm)
           /\ simulation' = [simulation EXCEPT !.time = @ + dt,
                                               !.removed = Len(bubbles) - Len(bm.bubbles)]

\* bubbleManager.popBubble(bubble)
PopBubble(i) ==
    /\ i \in 1..Len(bubbles)
    /\ bubbles[i].isAlive
    /\ SetBM(popBubble(BMState, i))
    /\ simulation' = [simulation EXCEPT !.popped = TRUE, !.removed = 0]

\* bubbleManager.render()
Render ==
    /\ SetBM(bubbleManagerRender(BMState))
    /\ simulation' = [simulation EXCEPT !.removed = 0]

\* ========================================================================
\* Specifications
\* ========================================================================
Init == ParticleInit /\ AudioInit /\ GameInit /\ LoopInit /\ SimulationInit

\* The particle system driven through its own interface.
NextParticles ==
    \/ /\ \E size \in PopSizes, life \in DropletLifetimes : CreatePopEffect(size, life)
       /\ UNCHANGED <<audioVars, bubbleVars, gameVars, loopVars, simVars>>
    \/ /\ \E i \in SplashIntensities, life \in SplashLifetimes : CreateSplashEffect(i, life)
       /\ UNCHANGED <<audioVars, bubbleVars, gameVars, loopVars, simVars>>
    \/ /\ \E dt \in FrameDeltas, off \in 0..Min(1, Len(particles)) : ParticleUpdate(dt, off)
       /\ UNCHANGED <<audioVars, bubbleVars, gameVars, loopVars, simVars>>
    \/ /\ ClearAll
       /\ UNCHANGED <<audioVars, bubbleVars, gameVars, loopVars, simVars>>
    \/ /\ \E b \in BOOLEAN : EnablePerformanceMode(b)
       /\ UNCHANGED <<audioVars, bubbleVars, gameVars, loopVars, simVars>>
    \/ /\ \E l \in QualityLevels : SetQualityLevel(l)
       /\ UNCHANGED <<audioVars, bubbleVars, gameVars, loopVars, simVars>>

SpecParticles == Init /\ [][NextParticles]_vars

\* The audio manager driven through its own interface, with its platform.
NextAudio ==
    \/ /\ \E sup \in BOOLEAN, loaded \in LoadOutcomes, st \in {"suspended", "running"},
             strict \in BOOLEAN :
            InitAudio(sup, loaded, st, strict)
       /\ UNCHANGED <<particleVars, bubbleVars, gameVars, loopVars, simVars>>
    \/ /\ \E ok \in BOOLEAN : ResumeAudio(ok)
       /\ UNCHANGED <<particleVars, bubbleVars, gameVars, loopVars, simVars>>
    \/ /\ \E size \in SoundSizes, theme \in Themes : PlayPopSound(size, theme)
       /\ UNCHANGED <<particleVars, bubbleVars, gameVars, loopVars, simVars>>
    \/ /\ \E t \in timers : CleanupTimerFires(t)
       /\ UNCHANGED <<particleVars, bubbleVars, gameVars, loopVars, simVars>>
    \/ /\ \E id \in playing : SoundEnds(id)
       /\ UNCHANGED <<particleVars, bubbleVars, gameVars, loopVars, simVars>>
    \/ /\ \E ok \in BOOLEAN : ToggleMute(ok)
       /\ UNCHANGED <<particleVars, bubbleVars, gameVars, loopVars, simVars>>
    \/ /\ AudioEnablePerformanceMode(TRUE)
       /\ UNCHANGED <<particleVars, bubbleVars, gameVars, loopVars, simVars>>
    \/ /\ \E d \in ClockSteps : Tick(d)
       /\ UNCHANGED <<particleVars, bubbleVars, gameVars, loopVars, simVars>>

SpecAudio == Init /\ [][NextAudio]_vars

\* The audio manager with the mute and volume controls: every outcome of
\* init, pops of the current theme, the volume slider and its test sound;
\* performance mode is switched on before the first sound, if at all, the
\* end of a tracked oscillator is observed when its cleanup timer fires, and
\* fewer than MaxSounds sounds are created.
NextMute ==
    \/ /\ \E sup \in BOOLEAN, loaded \in {{}, Themes}, st \in {"suspended", "running"},
             strict \in BOOLEAN :
            InitAudio(sup, loaded, st, strict)
       /\ UNCHANGED <<particleVars, bubbleVars, gameVars, loopVars, simVars>>
    \/ /\ \E ok \in BOOLEAN : ResumeAudio(ok)
       /\ UNCHANGED <<particleVars, bubbleVars, gameVars, loopVars, simVars>>
    \/ /\ \E size \in SoundSizes : PlayPopSound(size, currentTheme)
       /\ soundCounter' < MaxSounds
       /\ UNCHANGED <<particleVars, bubbleVars, gameVars, loopVars, simVars>>
    \/ /\ \E t \in timers : CleanupTimerFires(t)
       /\ UNCHANGED <<particleVars, bubbleVars, gameVars, loopVars, simVars>>
    \/ /\ \E id \in playing \ SeqToSet(activeSounds) : SoundEnds(id)
       /\ UNCHANGED <<particleVars, bubbleVars, gameVars, loopVars, simVars>>
    \/ /\ \E ok \in BOOLEAN : ToggleMute(ok)
       /\ UNCHANGED <<particleVars, bubbleVars, gameVars, loopVars, simVars>>
    \/ /\ \E ok \in BOOLEAN : ForceActivateAudio(ok)
       /\ soundCounter' < MaxSounds
       /\ UNCHANGED <<particleVars, bubbleVars, gameVars, loopVars, simVars>>
    \/ /\ \E v \in VolumeLevels : HandleVolumeChange(v)
       /\ UNCHANGED <<particleVars, bubbleVars, gameVars, loopVars, simVars>>
    \/ /\ VolumeTestFires
       /\ soundCounter' < MaxSounds
       /\ UNCHANGED <<particleVars, bubbleVars, gameVars, loopVars, simVars>>
    \/ /\ soundCounter = 0
       /\ AudioEnablePerformanceMode(TRUE)
       /\ UNCHANGED <<particleVars, bubbleVars, gameVars, loopVars, simVars>>
    \/ /\ \E d \in ClockSteps : Tick(d)
       /\ UNCHANGED <<particleVars, bubbleVars, gameVars, loopVars, simVars>>

SpecMute == Init /\ [][NextMute]_vars

\* Pops with live audio: init with or without the sample of the current
\* theme, game starts, touches, and frames with the pointer over a bubble or
\* off the canvas; no sound completes within the explored window.
NextPop ==
    \/ /\ \E loaded \in {{}, {"classic"}}, st \in {"suspended", "running"}, strict \in BOOLEAN :
            InitAudio(TRUE, loaded, st, strict)
       /\ UNCHANGED <<particleVars, bubbleVars, gameVars, loopVars, simVars>>
    \/ \E pct \in SpawnPercents, size \in PopSizes, life \in BubbleLifetimes :
            StartGame(pct, size, life)
    \/ \E pos \in PointerPoints, side \in {0}, pct \in SpawnPercents, size \in {200},
          life \in BubbleLifetimes, dl \in DropletLifetimes, speed \in SpawnSpeeds :
            TouchInteraction(pos, side, pct, size, life, dl, speed)
    \/ \E dt \in GameFrameDeltas, push \in Pushes, speed \in SpawnSpeeds,
          side \in SpawnSides, pct \in SpawnPercents, size \in {200},
          life \in BubbleLifetimes, delay \in SpawnDelays,
          hover \in HoverPoints, dl \in DropletLifetimes :
            /\ Frame(dt, push, speed, side, pct, size, life, delay, hover, 0, 0, 200, dl)
            /\ UNCHANGED <<loopVars, simVars>>

SpecPop == Init /\ [][NextPop]_vars

\* The bubble manager driven through its own interface.
NextBubbles ==
    \/ /\ bubbles = <<>>
       /\ \E pos \in SimPositions, size \in SimSizes, life \in SimLifetimes,
             fine \in BOOLEAN :
            CreateBubble(pos[1], pos[2], size, life, fine)
       /\ UNCHANGED <<particleVars, audioVars, gameVars, loopVars>>
    \/ /\ bubbles = <<>>
       /\ \E r \in SpawnDraws, pct \in SpawnPercents, size \in PopSizes,
             life \in BubbleLifetimes, speed \in SpawnSpeeds :
            SpawnBubble(r, pct, size, life, speed, FALSE)
       /\ UNCHANGED <<particleVars, audioVars, gameVars, loopVars>>
    \* a run in which the bubble was popped ends when the bubble is removed
    \/ /\ bubbles # <<>> \/ ~simulation.popped
       /\ \E dt \in (IF simulation.fine THEN FineDeltas ELSE CoarseDeltas),
             push \in Pushes :
            BubblesUpdate(dt, push)
       /\ UNCHANGED <<particleVars, audioVars, gameVars, loopVars>>
    \/ /\ \E i \in 1..Len(bubbles) : PopBubble(i)
       /\ UNCHANGED <<particleVars, audioVars, gameVars, loopVars>>

SpecBubbles == Init /\ [][NextBubbles]_vars

\* The bubble manager with several bubbles: bubbles of two sizes are created
\* in the middle of the window, updated at coarse frame deltas, popped and
\* rendered.
NextManager ==
    \/ /\ Len(bubbles) < MaxBubbleObjects
       /\ \E pos \in ManagerPositions, size \in PopSizes, life \in SimLifetimes :
            CreateBubble(pos[1], pos[2], size, life, FALSE)
       /\ UNCHANGED <<particleVars, audioVars, gameVars, loopVars>>
    \/ /\ \E dt \in CoarseDeltas, push \in Pushes : BubblesUpdate(dt, push)
       /\ UNCHANGED <<particleVars, audioVars, gameVars, loopVars>>
    \/ /\ \E i \in 1..Len(bubbles) : PopBubble(i)
       /\ UNCHANGED <<particleVars, audioVars, gameVars, loopVars>>
    \/ /\ Render
       /\ UNCHANGED <<particleVars, audioVars, gameVars, loopVars>>

SpecManager == Init /\ [][NextManager]_vars

\* The bubble manager in a window that is resized while bubbles are
\* simulated.
NextResize ==
    \/ /\ Len(bubbles) < MaxBubbleObjects
       /\ \E pos \in ResizePositions, size \in {200}, life \in SimLifetimes :
            CreateBubble(pos[1], pos[2], size, life, FALSE)
       /\ UNCHANGED <<particleVars, audioVars, gameVars, loopVars>>
    \/ /\ \E dt \in {100000}, push \in Pushes : BubblesUpdate(dt, push)
       /\ UNCHANGED <<particleVars, audioVars, gameVars, loopVars>>
    \/ \E size \in ResizeSizes, n \in ZoneCounts : HandleResize(size, n)

SpecResize == Init /\ [][NextResize]_vars

\* The bubble manager while the speed slider is moved: one bubble at a time
\* is created in the window and updated at coarse frame deltas.
NextSpeed ==
    \/ /\ bubbles = <<>>
       /\ \E pos \in SimPositions, size \in SimSizes, life \in SimLifetimes :
            CreateBubble(pos[1], pos[2], size, life, FALSE)
       /\ UNCHANGED <<particleVars, audioVars, gameVars, loopVars>>
    \/ /\ bubbles # <<>>
       /\ \E dt \in CoarseDeltas, push \in Pushes : BubblesUpdate(dt, push)
       /\ UNCHANGED <<particleVars, audioVars, gameVars, loopVars>>
    \/ \E level \in SpeedLevels : HandleSpeedChange(level)

SpecSpeed == Init /\ [][NextSpeed]_vars

\* frame deltas of a run that follows particles through their fade (100 ms)
FadeDeltas == {10000}

\* The particle system followed frame by frame: pop effects of a small
\* bubble are created while at most two particles of earlier effects are
\* left, and updated; in each update the first droplet may leave the screen.
NextFade ==
    \/ /\ Len(particles) <= 2
       /\ \E life \in DropletLifetimes : CreatePopEffect(60, life)
       /\ UNCHANGED <<audioVars, bubbleVars, gameVars, loopVars, simVars>>
    \/ /\ \E dt \in FadeDeltas, off \in 0..Min(1, Len(particles)) : ParticleUpdate(dt, off)
       /\ UNCHANGED <<audioVars, bubbleVars, gameVars, loopVars, simVars>>

SpecFade == Init /\ [][NextFade]_vars

\* spawnBubble on every edge: one bubble at a time is spawned, updated and
\* popped.
NextSpawn ==
    \/ /\ bubbles = <<>>
       /\ \E r \in EdgeDraws, pct \in EdgePercents, size \in PopSizes,
             life \in SimLifetimes, speed \in EdgeSpeeds :
            SpawnBubble(r, pct, size, life, speed, FALSE)
       /\ UNCHANGED <<particleVars, audioVars, gameVars, loopVars>>
    \/ /\ bubbles # <<>>
       /\ \E dt \in CoarseDeltas, push \in Pushes : BubblesUpdate(dt, push)
       /\ UNCHANGED <<particleVars, audioVars, gameVars, loopVars>>
    \/ /\ \E i \in 1..Len(bubbles) : PopBubble(i)
       /\ UNCHANGED <<particleVars, audioVars, gameVars, loopVars>>

SpecSpawn == Init /\ [][NextSpawn]_vars

\* zoneCount draws of a run of the physics engine on its own
TurbulenceZoneCounts == {4, 5}

\* The breeze zones of the physics engine: turbulence zones are injected and
\* expire while the window is resized and simple physics is switched.
NextTurbulence ==
    \/ Cardinality(zoneTimers) < MaxTurbulence /\ CreateTurbulence
    \/ \E k \in zoneTimers : TurbulenceExpires(k)
    \/ \E n \in TurbulenceZoneCounts : HandleResize(<<ViewWidth, ViewHeight>>, n)
    \/ \E enabled \in BOOLEAN : EnableSimplePhysics(enabled)

SpecTurbulence == Init /\ [][NextTurbulence]_vars

\* lifetimes of the bubbles of a retirement run: the draws of the game's
\* lifetime are distinct, so a listed bubble is told apart by its lifetime
RetireLifetimes == {300000, 600000}

\* a bubble of this lifetime is in the active list
Listed(life) == \E i \in 1..Len(bubbles) : bubbles[i].lifetime = life

\* an unpaused frame of positive delta reaching BubbleManager.update
RetireFrame ==
    /\ \E dt \in CoarseDeltas, push \in Pushes : BubblesUpdate(dt, push)
    /\ UNCHANGED <<particleVars, audioVars, gameVars, loopVars>>

\* The bubble manager under frames that keep arriving: bubbles of distinct
\* lifetimes are created in the window, popped, and updated.
NextRetire ==
    \/ /\ Len(bubbles) < MaxBubbleObjects
       /\ \E pos \in ManagerPositions, size \in SimSizes, life \in RetireLifetimes :
            /\ ~Listed(life)
            /\ CreateBubble(pos[1], pos[2], size, life, FALSE)
       /\ UNCHANGED <<particleVars, audioVars, gameVars, loopVars>>
    \/ RetireFrame
    \/ /\ \E i \in 1..Len(bubbles) : PopBubble(i)
       /\ UNCHANGED <<particleVars, audioVars, gameVars, loopVars>>

\* The clock of RetireFrame on its own. RetireFrame is the only step of
\* NextRetire that advances simulation.time, BubbleManager.update returns for
\* every list, and both are enabled exactly when the run has time left, so
\* weak fairness of FrameArrives is weak fairness of RetireFrame.
FrameArrives ==
    \E dt \in CoarseDeltas :
        /\ simulation.time + dt <= MaxSimTime
        /\ simulation' \in {[simulation EXCEPT !.time = @ + dt, !.removed = r] :
                               r \in 0..Len(bubbles)}

SpecRetire == Init /\ [][NextRetire]_vars /\ WF_simulation(FrameArrives)

\* The game loop with its clock: start, pause, resume and frame callbacks.
NextLoop ==
    \/ /\ InitAudio(FALSE, {}, "none", TRUE)
       /\ UNCHANGED <<particleVars, bubbleVars, gameVars, loopVars, simVars>>
    \/ /\ ~gameStarted
       /\ \E pct \in SpawnPercents, size \in PopSizes, life \in BubbleLifetimes :
            StartGame(pct, size, life)
    \/ Pause
    \/ Resume
    \/ \E d \in PerfSteps : PerfTick(d)
    \/ \E push \in Pushes, speed \in SpawnSpeeds,
          side \in SpawnSides, pct \in SpawnPercents, size \in {200},
          life \in BubbleLifetimes, delay \in SpawnDelays,
          hover \in {NoPointer}, off \in {0}, rside \in {0}, rsize \in {200},
          dl \in DropletLifetimes :
            GameLoop(push, speed, side, pct, size, life, delay, hover, off, rside, rsize, dl)

SpecLoop == Init /\ [][NextLoop]_vars

\* The loop with all four of its controls: start (through startGame), stop,
\* pause and resume in any order, the clock, and the frame callbacks.
NextControl ==
    \/ /\ InitAudio(FALSE, {}, "none", TRUE)
       /\ UNCHANGED <<particleVars, bubbleVars, gameVars, loopVars, simVars>>
    \/ /\ pendingFrames < MaxPendingFrames
       /\ \E pct \in SpawnPercents, size \in {200}, life \in BubbleLifetimes :
            StartGame(pct, size, life)
    \/ Stop
    \/ Pause
    \/ Resume
    \/ \E d \in PerfSteps : PerfTick(d)
    \/ \E push \in {0}, speed \in SpawnSpeeds,
          side \in SpawnSides, pct \in SpawnPercents, size \in {200},
          life \in BubbleLifetimes, delay \in SpawnDelays,
          hover \in {NoPointer}, off \in {0}, rside \in {0}, rsize \in {200},
          dl \in DropletLifetimes :
            GameLoop(push, speed, side, pct, size, life, delay, hover, off, rside, rsize, dl)

SpecControl == Init /\ [][NextControl]_vars

\* The running game at its bubble capacity: frames after any time, and
\* touches on the places where bubbles are.
NextCapacity ==
    \/ /\ InitAudio(FALSE, {}, "none", TRUE)
       /\ UNCHANGED <<particleVars, bubbleVars, gameVars, loopVars, simVars>>
    \/ /\ ~gameStarted
       /\ \E pct \in SpawnPercents, size \in {200}, life \in BubbleLifetimes :
            StartGame(pct, size, life)
    \/ \E d \in PerfSteps : PerfTick(d)
    \/ \E push \in Pushes, speed \in SpawnSpeeds,
          side \in SpawnSides, pct \in SpawnPercents, size \in {200},
          life \in BubbleLifetimes, delay \in SpawnDelays,
          hover \in {NoPointer}, off \in {0}, rside \in {0}, rsize \in {200},
          dl \in DropletLifetimes :
            GameLoop(push, speed, side, pct, size, life, delay, hover, off, rside, rsize, dl)
    \/ \E pos \in PointerPoints, side \in {0}, pct \in SpawnPercents, size \in {200},
          life \in BubbleLifetimes, dl \in DropletLifetimes, speed \in SpawnSpeeds :
            TouchInteraction(pos, side, pct, size, life, dl, speed)

SpecCapacity == Init /\ [][NextCapacity]_vars

\* The input handler on the running game: touch events in any number
\* between two frames, and frames whose InputHandler.update delivers the
\* pointer position; the audio is absent or running.
NextInput ==
    \/ /\ \/ InitAudio(FALSE, {}, "none", TRUE)
          \/ InitAudio(TRUE, {}, "running", FALSE)
       /\ UNCHANGED <<particleVars, bubbleVars, gameVars, loopVars, simVars>>
    \/ /\ ~gameStarted
       /\ \E pct \in SpawnPercents, size \in {200}, life \in BubbleLifetimes :
            StartGame(pct, size, life)
    \/ \E d \in PerfSteps : PerfTick(d)
    \/ \E push \in Pushes, speed \in SpawnSpeeds,
          side \in SpawnSides, pct \in SpawnPercents, size \in {200},
          life \in BubbleLifetimes, delay \in SpawnDelays,
          hover \in HoverPoints, off \in {0}, rside \in {0}, rsize \in {200},
          dl \in DropletLifetimes :
            GameLoop(push, speed, side, pct, size, life, delay, hover, off, rside, rsize, dl)
    \/ \E pos \in PointerPoints, side \in {0}, pct \in SpawnPercents, size \in {200},
          life \in BubbleLifetimes, dl \in DropletLifetimes, speed \in SpawnSpeeds :
            TouchInteraction(pos, side, pct, size, life, dl, speed)

SpecInput == Init /\ [][NextInput]_vars

\* The bubble manager and the particle system, each through all the
\* operations that change its active list: create, pop, update (with its
\* removals), clearAll and dispose.
NextCounters ==
    \/ /\ Len(bubbles) < MaxBubbleObjects
       /\ \E pos \in ManagerPositions, size \in {200}, life \in SimLifetimes :
            CreateBubble(pos[1], pos[2], size, life, FALSE)
       /\ UNCHANGED <<particleVars, audioVars, gameVars, loopVars>>
    \/ /\ \E dt \in {500000}, push \in Pushes : BubblesUpdate(dt, push)
       /\ UNCHANGED <<particleVars, audioVars, gameVars, loopVars>>
    \/ /\ \E i \in 1..Len(bubbles) : PopBubble(i)
       /\ UNCHANGED <<particleVars, audioVars, gameVars, loopVars>>
    \/ /\ Len(particles) <= 2
       /\ \E life \in DropletLifetimes : CreatePopEffect(60, life)
       /\ UNCHANGED <<audioVars, bubbleVars, gameVars, loopVars, simVars>>
    \/ /\ \E i \in SplashIntensities, life \in SplashLifetimes : CreateSplashEffect(i, life)
       /\ UNCHANGED <<audioVars, bubbleVars, gameVars, loopVars, simVars>>
    \/ /\ \E dt \in FrameDeltas, off \in 0..Min(1, Len(particles)) : ParticleUpdate(dt, off)
       /\ UNCHANGED <<audioVars, bubbleVars, gameVars, loopVars, simVars>>
    \/ /\ ClearAll
       /\ UNCHANGED <<audioVars, bubbleVars, gameVars, loopVars, simVars>>
    \/ /\ Dispose
       /\ UNCHANGED <<audioVars, bubbleVars, gameVars, loopVars, simVars>>

SpecCounters == Init /\ [][NextCounters]_vars

\* The frame callback on the running game that is paused and resumed: frames
\* that spawn, update, pop under the pointer and render, paused callbacks,
\* and touches between them.
NextFrame ==
    \/ /\ InitAudio(FALSE, {}, "none", TRUE)
       /\ UNCHANGED <<particleVars, bubbleVars, gameVars, loopVars, simVars>>
    \/ /\ ~gameStarted
       /\ \E pct \in SpawnPercents, size \in {200}, life \in BubbleLifetimes :
            StartGame(pct, size, life)
    \/ Pause
    \/ Resume
    \/ \E d \in PerfSteps : PerfTick(d)
    \/ \E push \in Pushes, speed \in SpawnSpeeds,
          side \in SpawnSides, pct \in SpawnPercents, size \in {200},
          life \in BubbleLifetimes, delay \in SpawnDelays,
          hover \in HoverPoints, off \in {0}, rside \in {0}, rsize \in {200},
          dl \in DropletLifetimes :
            GameLoop(push, speed, side, pct, size, life, delay, hover, off, rside, rsize, dl)
    \/ \E pos \in PointerPoints, side \in {0}, pct \in SpawnPercents, size \in {200},
          life \in BubbleLifetimes, dl \in DropletLifetimes, speed \in SpawnSpeeds :
            TouchInteraction(pos, side, pct, size, life, dl, speed)

SpecFrame == Init /\ [][NextFrame]_vars

\* The game: its handlers and the callbacks of its platform.
Next ==
    \/ /\ InitAudio(FALSE, {}, "none", TRUE)
       /\ UNCHANGED <<particleVars, bubbleVars, gameVars, loopVars, simVars>>
    \/ \E pct \in SpawnPercents, size \in PopSizes, life \in BubbleLifetimes :
            StartGame(pct, size, life)
    \* the clock advances by dt and the frame callback runs; the origin of
    \* the clock is moved to the callback, so that perfNow and lastTime stay 0;
    \* the pointer is off the canvas while frames run (pops come from touches)
    \/ \E dt \in GameFrameDeltas, push \in Pushes, speed \in SpawnSpeeds,
          side \in SpawnSides, pct \in SpawnPercents, size \in PopSizes,
          life \in BubbleLifetimes, delay \in SpawnDelays,
          hover \in {NoPointer}, off \in {0}, rside \in {0}, rsize \in {200},
          dl \in DropletLifetimes :
            /\ Frame(dt, push, speed, side, pct, size, life, delay, hover, off, rside, rsize, dl)
            /\ UNCHANGED <<loopVars, simVars>>
    \/ \E pos \in PointerPoints, side \in {0}, pct \in SpawnPercents, size \in {200},
          life \in BubbleLifetimes, dl \in DropletLifetimes, speed \in SpawnSpeeds :
            TouchInteraction(pos, side, pct, size, life, dl, speed)
    \/ \E level \in DensityLevels : HandleDensityChange(level)
    \/ \E t \in Themes : HandleThemeChange(t)
    \/ /\ ClearAll
       /\ UNCHANGED <<audioVars, bubbleVars, gameVars, loopVars, simVars>>

Spec == Init /\ [][Next]_vars

\* ========================================================================
\* Properties
\* ========================================================================

\* ---- C1 ----------------------------------------------------------------
\* The objects of each pool: the active list followed by the free list.
BubbleObjects == [i \in 1..Len(bubbles) |-> bubbles[i].id] \o bubblePool
ParticleObjects == [i \in 1..Len(particles) |-> particles[i].id] \o particlePool

\* C1: in the bubble pool and in the particle pool alike, no object is in
\* the active list and in the free list at once, no object occurs twice in
\* either list, and the two lists together hold exactly the objects that
\* have been allocated.
C1_PoolsPartitionObjects ==
    /\ NoDuplicates(BubbleObjects)
    /\ Len(BubbleObjects) = bubblesAllocated
    /\ NoDuplicates(ParticleObjects)
    /\ Len(ParticleObjects) = particlesAllocated

\* Both pools hold recycled objects next to active ones, one bubble popped
\* and not yet removed.
C1_Witness ==
    /\ Len(bubblePool) > 0 /\ Len(bubbles) > 0
    /\ \E i \in 1..Len(bubbles) : ~bubbles[i].isAlive
    /\ Len(particlePool) > 0 /\ Len(particles) > 0

\* ---- C2 ----------------------------------------------------------------
\* C2: the number of active bubbles never exceeds config.maxBubbles.
C2_ActiveWithinMax == activeCount <= configMaxBubbles

\* ---- C6 ----------------------------------------------------------------
\* C6: when handleBubbleInteraction has popped a bubble, the popped object
\* is in the free pool and out of the active count by the time the
\* replacement spawn of the same interaction reads the count.
C6_PoppedSlotReleased ==
    lastInteraction.hit =>
        /\ lastInteraction.poppedReleased
        /\ ~lastInteraction.poppedListed
        /\ lastInteraction.countRead = lastInteraction.liveCount

\* ---- C9 ----------------------------------------------------------------
\* C9: a hit calls playPopSound once, with the size and with the theme of
\* the bubble that was popped.
C9_SoundMatchesPoppedBubble ==
    lastInteraction.hit =>
        /\ lastInteraction.triggerCalls = 1
        /\ lastInteraction.triggerSize = lastInteraction.size
        /\ lastInteraction.triggerTheme = lastInteraction.bubbleTheme

\* ---- C10 ---------------------------------------------------------------
\* Points at which the hit test is examined: the pointer positions, every
\* bubble's centre, and the points just outside every bubble's radius.
HitTestPoints ==
    PointerPoints
    \cup {<<bubbles[i].x, bubbles[i].y>> : i \in 1..Len(bubbles)}
    \cup {<<bubbles[i].x + 50 * bubbles[i].size + 1, bubbles[i].y>> : i \in 1..Len(bubbles)}

NeverHitOutsideRadius ==
    \A p \in HitTestPoints : \A i \in 1..Len(bubbles) :
        ~contains(bubbles[i], p[1], p[2]) => checkCollision(bubbles, p[1], p[2]) # i

\* C10 (as stated): the hit test at the centre of a live bubble returns that
\* bubble, and at a distance greater than its radius never returns it.
C10_CentreReturnsBubble ==
    /\ \A i \in 1..Len(bubbles) :
          bubbles[i].isAlive => checkCollision(bubbles, bubbles[i].x, bubbles[i].y) = i
    /\ NeverHitOutsideRadius

\* C10 (amended): the hit test at the centre of a live bubble returns the
\* first live bubble of the active list that contains the point, which is
\* that bubble unless an earlier live one overlaps its centre; at a distance
\* greater than its radius it never returns the bubble.
C10_CentreReturnsFirstContaining ==
    /\ \A i \in 1..Len(bubbles) :
          bubbles[i].isAlive =>
              LET r == checkCollision(bubbles, bubbles[i].x, bubbles[i].y)
                  earlier == {j \in 1..(i - 1) :
                                 bubbles[j].isAlive /\
                                 contains(bubbles[j], bubbles[i].x, bubbles[i].y)}
              IN  IF earlier = {} THEN r = i
                  ELSE r \in earlier /\ \A j \in earlier : r <= j
    /\ NeverHitOutsideRadius

\* Two live bubbles, the earlier one over the centre of the later one, and a
\* live bubble whose centre no earlier bubble covers.
C10_Witness ==
    /\ \E i, j \in 1..Len(bubbles) :
          /\ i < j /\ bubbles[i].isAlive /\ bubbles[j].isAlive
          /\ contains(bubbles[i], bubbles[j].x, bubbles[j].y)
          /\ checkCollision(bubbles, bubbles[j].x, bubbles[j].y) = i
    /\ \E p \in HitTestPoints : \E i \in 1..Len(bubbles) :
          bubbles[i].isAlive /\ ~contains(bubbles[i], p[1], p[2])

\* C3 (as claimed): in every reachable state activeParticles is at most
\* maxParticles.
C3_ActiveWithinMax == activeParticles <= maxParticles

\* C4 (as claimed): the sounds playing at the same time never exceed
\* maxSimultaneousSounds, and every sound that was started occupies a slot of
\* activeSounds until it completes.
C4_SoundsWithinLimit ==
    /\ Cardinality(playing) <= maxSimultaneousSounds
    /\ playing \subseteq SeqToSet(activeSounds)

\* C5: processQueuedSounds starts a queued request only if it is younger than
\* 100 ms, and when it returns no request of 100 ms or older is left in
\* soundQueue.
C5_QueuedSoundsExpire ==
    lastDrain.ran =>
        /\ lastDrain.started => lastDrain.age < 100
        /\ \A i \in 1..Len(soundQueue) : now - soundQueue[i].timestamp < 100

\* C5 witness: a drain has just dropped a request that waited 100 ms or more.
C5_Witness == lastDrain.ran /\ lastDrain.dropped > 0

\* C7 (as claimed): createPopEffect creates min(maxParticles - activeParticles,
\* round(baseParticleCount * clamp(size/150, 0.5, 3.0) * qualityLevel)) droplets.
C7_RoundedDropletCount ==
    lastPop.called =>
        lastPop.droplets =
            Min(lastPop.maxParticles - lastPop.activeBefore,
                RoundDiv(lastPop.base * Clamp(lastPop.size, 75, 450) * lastPop.quality, 1500))

\* C7 (amended): createPopEffect creates max(0, min(maxParticles -
\* activeParticles, floor(baseParticleCount * clamp(size/150, 0.5, 3.0) *
\* qualityLevel))) droplets.
C7_FlooredDropletCount ==
    lastPop.called =>
        lastPop.droplets =
            Max(0, Min(lastPop.maxParticles - lastPop.activeBefore,
                       (lastPop.base * Clamp(lastPop.size, 75, 450) * lastPop.quality) \div 1500))

\* C7 witness: a pop of a size-200 bubble at quality 1.0 with room for all its
\* droplets has just been made.
C7_Witness ==
    /\ lastPop.called /\ lastPop.size = 200 /\ lastPop.quality = 10
    /\ lastPop.base = 8
    /\ lastPop.maxParticles - lastPop.activeBefore >= 11
    /\ lastPop.droplets = 10

\* C8 (as claimed): every createPopEffect call adds exactly one burst ring.
C8_AlwaysOneBurst == lastPop.called => lastPop.bursts = 1

\* C8 (amended): a createPopEffect call adds one burst ring if, after its
\* droplets were created, the pool still holds an object or activeParticles
\* is below maxParticles, and no burst ring otherwise.
C8_BurstIfAvailable ==
    lastPop.called =>
        LET pooledAfter == Max(0, lastPop.pooledBefore - lastPop.droplets)
            activeAfter == lastPop.activeBefore + lastPop.droplets
        IN  lastPop.bursts =
                IF pooledAfter > 0 \/ activeAfter < lastPop.maxParticles THEN 1 ELSE 0

\* C8 witness: a pop whose droplets used up the capacity, and that added no ring.
C8_Witness ==
    /\ lastPop.called /\ lastPop.droplets > 0 /\ lastPop.bursts = 0
    /\ lastPop.activeBefore + lastPop.droplets = lastPop.maxParticles

\* ---- C11 ---------------------------------------------------------------
\* C11: every active bubble has 0 <= opacity <= 1, its opacity is 1 as long
\* as age / lifetime <= 0.92, and from one update to the next its opacity
\* decreases only when age / lifetime > 0.92.
C11_OpacityFadesLate ==
    /\ [](\A i \in 1..Len(bubbles) :
             bubbles[i].isAlive =>
                 /\ 0 <= bubbles[i].opacity /\ bubbles[i].opacity <= 100
                 /\ 100 * bubbles[i].age <= 92 * bubbles[i].lifetime =>
                        bubbles[i].opacity = 100)
    /\ [][\A i \in 1..Len(bubbles) :
             (/\ i <= Len(bubbles')
              /\ bubbles'[i].isAlive
              /\ bubbles'[i].age > bubbles[i].age
              /\ bubbles'[i].opacity < bubbles[i].opacity)
             => 100 * bubbles'[i].age > 92 * bubbles'[i].lifetime]_vars

\* C11 witness: a bubble made from a pooled object has reached the last 8%
\* of its lifetime and is fading.
C11_Witness ==
    /\ simulation.reused
    /\ \E i \in 1..Len(bubbles) :
          /\ bubbles[i].isAlive
          /\ 100 * bubbles[i].age > 92 * bubbles[i].lifetime
          /\ bubbles[i].opacity < 100 /\ bubbles[i].opacity > 0

\* ---- C12 ---------------------------------------------------------------
\* The visible area: 0 <= x <= width and 0 <= y <= height.
InVisibleArea(b) ==
    /\ 0 <= b.x /\ b.x <= innerWidth * 100
    /\ 0 <= b.y /\ b.y <= innerHeight * 100

\* C12 (as claimed): a bubble spawned on the bottom edge starts with age 0
\* and vy < 0, and a physics update that leaves it younger than 2000 ms and
\* still outside the visible area has applied the grace factor 0.1 to it.
C12_GraceUntilVisible ==
    simulation.spawned =>
        \A i \in 1..Len(bubbles) :
            bubbles[i].isAlive =>
                /\ bubbles[i].grace = 0 => bubbles[i].age = 0 /\ bubbles[i].vy < 0
                /\ (/\ bubbles[i].grace # 0
                    /\ bubbles[i].age < 200000
                    /\ ~InVisibleArea(bubbles[i])) => bubbles[i].grace = 1

\* ---- C13 ---------------------------------------------------------------
\* C13 (as claimed): a bubble of size 150 created at (500, 1000) in the
\* 1000x800 window and updated with frames of 16.67 ms is still simulated
\* after 2050 ms, is then higher than where it was created, and the grace
\* factor of its last physics update is 1.0.
C13_RisesAndLeavesGrace ==
    (/\ simulation.fine /\ ~simulation.popped
     /\ simulation.origin = <<50000, 100000>>
     /\ simulation.time >= 205000 /\ simulation.time < 300000)
    => \E i \in 1..Len(bubbles) :
          /\ bubbles[i].isAlive /\ bubbles[i].size = 150
          /\ bubbles[i].age = simulation.time
          /\ bubbles[i].y < 100000
          /\ bubbles[i].grace = 10

\* ---- C14 ---------------------------------------------------------------
\* C14: a popped bubble that is still in the active list is left as it is by
\* Bubble.update for every frame delta (age, velocity and position
\* unchanged), is not drawn by render, and is not returned by checkCollision
\* at any point, its own centre included.
C14_PoppedBubbleIsInert ==
    \A i \in 1..Len(bubbles) :
        ~bubbles[i].isAlive =>
            /\ \A dt \in FineDeltas \cup CoarseDeltas \cup GameFrameDeltas, push \in Pushes :
                  bubbleUpdate(bubbles[i], dt, push) = bubbles[i]
            /\ ~Drawn(bubbles[i])
            /\ \A p \in HitTestPoints : checkCollision(bubbles, p[1], p[2]) # i

\* C14 witness: a bubble has been popped in the middle of its life and is
\* still in the active list, with the pointer position inside it.
C14_Witness ==
    /\ simulation.popped
    /\ \E i \in 1..Len(bubbles) :
          /\ ~bubbles[i].isAlive
          /\ bubbles[i].age > 0 /\ bubbles[i].age < bubbles[i].lifetime
          /\ \E p \in PointerPoints : contains(bubbles[i], p[1], p[2])

\* ---- C15 ---------------------------------------------------------------
\* C15: a frame callback that finds the game paused runs neither update nor
\* render (bubbles, particles, sounds and spawn timing are left as they
\* were) and requests the next frame; a frame callback that runs update
\* passes it a delta that holds no time spent paused.
C15_PausedTimeNotInDelta ==
    [][/\ lastLoop'.skipped =>
            /\ UNCHANGED <<particleVars, audioVars, bubbleVars, gameVars>>
            /\ pendingFrames' > 0
       /\ lastLoop'.ran => lastLoop'.paused = 0]_vars

\* C15 witness: the first update after a pause during which the clock
\* advanced gets the time elapsed since the resume.
C15_Witness ==
    /\ lastLoop.ran
    /\ lastLoop.pausedBefore > 0
    /\ lastLoop.delta > 0
    /\ lastLoop.delta < perfNow

\* C16: the manager is Active only with loading finished and the context
\* running, Active is never left by any later event, and while Active the
\* only thing that makes a trigger call a no-op is the mute flag.
C16_ActivationOnlyForward ==
    /\ [](isInitialized => (isBufferLoaded /\ audioContextState = "running"))
    /\ [][isInitialized => isInitialized']_vars
    /\ [](isInitialized => (PlayPopSoundIsNoOp <=> isMuted))

\* C16 witness: an Active manager with a sound playing and a volume change
\* whose test sound is still pending.
C16_Witness == isInitialized /\ ~isMuted /\ playing # {} /\ volumeTests > 0

\* C17 (as claimed): whenever isMuted goes from false to true, no sound of
\* either strategy is left playing, and activeSounds and soundQueue are empty
\* right after the step.
C17_MuteStopsEverySound ==
    [][(~isMuted /\ isMuted') =>
        (playing' = {} /\ activeSounds' = <<>> /\ soundQueue' = <<>>)]_vars

\* C18 (as claimed): every sound that was started and has not completed is
\* recorded in activeSounds and has exactly one completion callback pending.
C18_StartedSoundsComplete ==
    \A id \in playing :
        /\ \E i \in 1..Len(activeSounds) : activeSounds[i] = id
        /\ Cardinality({t \in timers : t.id = id}) = 1

\* C19: while the manager is not initialized, its context is suspended, or it
\* is muted or disabled, playPopSound changes nothing: no sound is started,
\* activeSounds and soundQueue stay as they are and no exception is raised.
C19_GatedTriggerIsNoOp ==
    (~isInitialized \/ audioContextState = "suspended" \/ isMuted \/ ~isEnabled) =>
        \A bubbleSize \in SoundSizes \cup {100, 150}, theme \in Themes :
            playPopSound(ASState, bubbleSize, theme) = ASState

\* C19 witness: a muted manager that is otherwise ready to play, with a
\* tracked sound still in activeSounds.
C19_Witness ==
    /\ isMuted /\ isEnabled /\ isInitialized /\ audioContextState = "running"
    /\ activeSounds # <<>>

\* C20: after a hit, whatever the sound playback did, no exception has left
\* playPopSound, a sample that threw was followed by the synthesis fallback,
\* the pop effect has run, the pop has been counted and the hit bubble is no
\* longer alive.
C20_SoundFailureNeverBlocksPop ==
    lastInteraction.hit =>
        /\ ~audioErrors.escaped
        /\ (audioErrors.sample => audioErrors.fallback)
        /\ lastPop.called
        /\ popCount >= 1
        /\ ~lastInteraction.poppedAlive

\* C20 witness: a hit whose sample playback threw and whose synthesis threw
\* as well, with droplets created for the pop.
C20_Witness ==
    /\ lastInteraction.hit
    /\ audioErrors.sample /\ audioErrors.synth
    /\ lastPop.called /\ lastPop.droplets > 0

\* C21 (as claimed): of the live bubbles that contain a point, the hit test
\* returns the one spawned first.  Every update adds the same delta to the age
\* of every listed bubble, so a bubble that is older than another was spawned
\* before it: no live bubble containing the point is older than the one
\* returned.
C21_EarliestSpawnedIsHit ==
    \A p \in HitTestPoints :
        LET r == checkCollision(bubbles, p[1], p[2])
        IN  r # 0 =>
                \A j \in 1..Len(bubbles) :
                    (bubbles[j].isAlive /\ contains(bubbles[j], p[1], p[2])) =>
                        bubbles[j].age <= bubbles[r].age

\* C22: when BubbleManager.update returns, every listed bubble is alive,
\* younger than its lifetime and within 100 px of the window; the bubbles that
\* were popped before the call or reached their lifetime in it are among the
\* removed ones, and each removed bubble was pushed onto the pool once: the
\* pool grew by the number removed, the count fell by it, and no object is
\* listed or pooled twice.
C22_UpdateLeavesOnlyLive ==
    [][simulation'.time > simulation.time =>
        LET dt == simulation'.time - simulation.time
            gone == {i \in 1..Len(bubbles) :
                        ~bubbles[i].isAlive \/ bubbles[i].age + dt >= bubbles[i].lifetime}
            removed == Len(bubbles) - Len(bubbles')
            objects == [i \in 1..Len(bubbles') |-> bubbles'[i].id] \o bubblePool'
        IN  /\ \A i \in 1..Len(bubbles') :
                  /\ bubbles'[i].isAlive
                  /\ bubbles'[i].age < bubbles'[i].lifetime
                  /\ bubbles'[i].x >= -10000 /\ bubbles'[i].x <= innerWidth' * 100 + 10000
                  /\ bubbles'[i].y >= -10000 /\ bubbles'[i].y <= innerHeight' * 100 + 10000
            /\ removed >= Cardinality(gone)
            /\ Len(bubblePool') = Len(bubblePool) + removed
            /\ activeCount' = activeCount - removed
            /\ NoDuplicates(objects)
            /\ Len(objects) = bubblesAllocated]_vars

\* C22 witness: an update has just removed two bubbles, one of them popped
\* before the call.
C22_Witness == simulation.removed = 2 /\ simulation.popped /\ Len(bubblePool) = 2

\* C23 (as claimed): while the manager is muted no sound is started; in
\* particular the queue drain that a completion callback runs starts none.
\* (No step that runs the drain changes the mute flag.)
C23_NoSoundStartsWhileMuted ==
    isMuted => (lastDrain.ran => ~lastDrain.started)


\* C24: at most one gameLoop callback is pending at any time, whatever the
\* order of start, stop, pause, resume and the frame callbacks.
C24_AtMostOnePendingCallback ==
    pendingFrames <= 1


\* C25: one update of the bubble manager advances the wind timer by the
\* frame delta exactly once (rolling a new wind target and restarting the
\* timer at the interval), whatever the number of active bubbles.
C25_WindTimerOncePerFrame ==
    [][simulation'.time > simulation.time =>
         lastWindUpdate' = updateEnvironmentalForces(lastWindUpdate,
                                                     simulation'.time - simulation.time)]_vars


\* The longest frame time the physics step accepts: Math.min(deltaTime /
\* 16.67, 2) units of 16.67 ms.
MaxFrameStep == 3334

\* age of the oldest listed bubble (0 for an empty list)
RECURSIVE OldestAge(_)
OldestAge(bs) ==
    IF bs = <<>> THEN 0 ELSE Max(Head(bs).age, OldestAge(Tail(bs)))

\* C26: the time one update applies to the simulation is capped: however
\* large the raw frame delta, no bubble ages and the spawn timer does not
\* advance by more than the fixed maximum step in one update.
C26_UpdateStepIsCapped ==
    [][lastLoop'.ran =>
         /\ OldestAge(bubbles') - OldestAge(bubbles) <= MaxFrameStep
         /\ lastSpawnTime' - lastSpawnTime <= MaxFrameStep]_vars


\* C27: the grace period of a bubble ends once and for all: a bubble whose
\* last physics update applied the factor 1.0 gets the factor 1.0 in its
\* next update too, also after a resize of the window.
C27_GraceEndsForGood ==
    [][(simulation'.time > simulation.time /\ Len(bubbles') = Len(bubbles)) =>
         \A i \in 1..Len(bubbles) :
             bubbles[i].grace = 10 => bubbles'[i].grace = 10]_vars


\* C28: reaching the bubble capacity is not an error. A frame that begins
\* with the active count at or above config.maxBubbles completes and
\* creates no bubble (the list shrinks by the bubbles that die, nothing is
\* allocated or taken from the pool) and the spawn timer keeps its time; a
\* touch that pops a bubble while the count read is at or above the maximum
\* completes and spawns no replacement; and a frame that begins below the
\* maximum with a spawn that has been due since an earlier frame performs
\* it (a bubble is added and the spawn timer restarts).
C28_CapacitySkipsThenSpawns ==
    [][LET dying == {i \in 1..Len(bubbles) :
                        \/ ~bubbles[i].isAlive
                        \/ bubbles[i].age + lastLoop'.delta >= bubbles[i].lifetime}
       IN  /\ (lastLoop'.ran /\ activeCount >= configMaxBubbles) =>
                 /\ Len(bubbles') = Len(bubbles) - Cardinality(dying)
                 /\ bubblesAllocated' = bubblesAllocated
                 /\ Len(bubblePool') = Len(bubblePool) + Cardinality(dying)
                 /\ lastSpawnTime' >= lastSpawnTime
                 /\ nextSpawnDelay' = nextSpawnDelay
           /\ (lastLoop'.ran /\ activeCount < configMaxBubbles
                             /\ lastSpawnTime >= nextSpawnDelay) =>
                 /\ lastSpawnTime' = 0
                 /\ (\A life \in BubbleLifetimes : lastLoop'.delta < life) =>
                        Len(bubbles') = Len(bubbles) - Cardinality(dying) + 1
           /\ (~lastLoop'.ran /\ lastInteraction'.hit
                              /\ lastInteraction'.countRead >= configMaxBubbles) =>
                 /\ ~lastInteraction'.replaced
                 /\ Len(bubbles') = Len(bubbles)
                 /\ bubblesAllocated' = bubblesAllocated
                 /\ bubblePool' = bubblePool]_vars

\* C28 witness: a frame that began below the maximum with a spawn that was
\* already due, because the frames before it found the game at capacity,
\* has spawned.
C28_Witness ==
    /\ lastLoop.ran
    /\ lastLoop.due
    /\ lastLoop.count < configMaxBubbles
    /\ \A life \in BubbleLifetimes : lastLoop.delta < life
    /\ lastSpawnTime = 0
    /\ Len(bubbles) > 0


\* number of listed bubbles that are no longer alive
PoppedListed(bs) == Cardinality({i \in 1..Len(bs) : ~bs[i].isAlive})

Distance(a, b) == IF a >= b THEN a - b ELSE b - a

\* C30: of two runs of one update that start from the same bubble, wind and
\* frame delta, with the physics engine present, and differ only in the speed
\* multiplier, the run with the larger multiplier moves the bubble further.
\* The first run is the step taken; the second is the same update computed
\* with every other multiplier the slider can set.
C30_LargerMultiplierMovesFurther ==
    [][(/\ simulation'.time > simulation.time
        /\ Len(bubbles) = 1 /\ Len(bubbles') = 1
        /\ ReachesPhysics(bubbles[1], simulation'.time - simulation.time)) =>
         \A level \in SpeedLevels, push \in Pushes :
            LET dt == simulation'.time - simulation.time
                aged == [bubbles[1] EXCEPT !.age = @ + dt]
                run == moveBubble(aged, dt, TRUE, bubbleSpeedMultiplier, push)
                twin == moveBubble(aged, dt, TRUE, SpeedMultiplier(level), push)
            IN  (/\ run.y = bubbles'[1].y
                 /\ SpeedMultiplier(level) > bubbleSpeedMultiplier) =>
                    Distance(twin.y, bubbles[1].y) > Distance(run.y, bubbles[1].y)]_vars


\* C31: every bubble is eventually retired. An update leaves no bubble in
\* the active list that is dead or whose age has reached its lifetime, and
\* every bubble it takes from the list is in the pool; and while frames of
\* positive delta keep arriving, a listed bubble does not stay listed forever.
C31_EveryBubbleIsRetired ==
    /\ [][simulation'.time > simulation.time =>
            /\ \A i \in 1..Len(bubbles') :
                   bubbles'[i].isAlive /\ bubbles'[i].age < bubbles'[i].lifetime
            /\ Len(bubblePool') = Len(bubblePool) + (Len(bubbles) - Len(bubbles'))
            /\ activeCount' = activeCount - (Len(bubbles) - Len(bubbles'))]_vars
    /\ \A life \in RetireLifetimes : Listed(life) ~> ~Listed(life)

\* C31: an update has retired a bubble that was never popped, while another
\* bubble is still active
C31_Witness ==
    /\ simulation.removed > 0
    /\ ~simulation.popped
    /\ Len(bubblePool) > 0
    /\ Len(bubbles) > 0


\* the particles in the active list that are not alive
DeadListed(ps) == Cardinality({i \in 1..Len(ps) : ~ps[i].isAlive})

\* C32: no active particle has age >= lifetime or opacity <= 0: a particle
\* whose life or opacity has run out, a burst ring at the end of its 200 ms
\* in particular, left the active list in the update that brought it there.
\* Every particle object is in the active list or in the pool exactly once.
\* After an update the only dead particle in the list is the droplet that
\* left the screen in this update, so a dead droplet is removed by the
\* following update at the latest.
C32_ExpiredParticlesRemoved ==
    /\ [](/\ \A i \in 1..Len(particles) :
                 particles[i].age < particles[i].lifetime /\ particles[i].opacity > 0
          /\ Len(ParticleObjects) = particlesAllocated
          /\ \A i, j \in 1..Len(ParticleObjects) :
                 ParticleObjects[i] = ParticleObjects[j] => i = j
          /\ activeParticles = Len(particles))
    /\ [][~lastPop'.called =>
             /\ DeadListed(particles') <= 1
             /\ Len(particles') <= Len(particles)
             /\ Len(particlePool') = Len(particlePool) + (Len(particles) - Len(particles'))]_vars

\* C32: the burst ring of an effect has ended and is pooled while droplets
\* of the effect are still fading and one droplet that left the screen is
\* still listed
C32_Witness ==
    /\ Len(particlePool) > 0
    /\ ~lastPop.called
    /\ \A i \in 1..Len(particles) : particles[i].type = "droplet"
    /\ \E i \in 1..Len(particles) :
           particles[i].isAlive /\ particles[i].opacity < DropletOpacity
    /\ DeadListed(particles) = 1


\* C33: in a physics step of a bubble in its grace period, buoyancy, wobble
\* and wind change the velocity at full strength and the other forces (drag
\* with the terminal-velocity clamp, boundary repulsion) at one tenth of
\* their strength; outside the grace period every force acts at full
\* strength. The step taken is compared with the step computed that way.
C33_GraceScalesOtherForces ==
    [][(/\ simulation'.time > simulation.time
        /\ Len(bubbles) = 1 /\ Len(bubbles') = 1
        /\ ReachesPhysics(bubbles[1], simulation'.time - simulation.time)) =>
         \A push \in Pushes :
            LET dt == simulation'.time - simulation.time
                aged == [bubbles[1] EXCEPT !.age = @ + dt]
                dtU == PhysicsDt(dt)
                g == IF isInSpawnGracePeriod(aged) THEN 1 ELSE 10
                AtStrength(before, after) == before + Trunc((after - before) * g, 10)
                lifted == applyBreeze(applyBuoyancy(aged, dtU, 10), push, 10)
                dragged == [lifted EXCEPT
                               !.vy = AtStrength(@, applyAirResistance(lifted, dtU).vy)]
                moved == [dragged EXCEPT !.y = @ + Trunc(dragged.vy * dtU, 10000)]
                claimed == AtStrength(moved.vy, handleBoundaries(moved).vy)
            IN  moveBubble(aged, dt, TRUE, bubbleSpeedMultiplier, push).vy = bubbles'[1].vy
                    => bubbles'[1].vy = claimed]_vars


\* C34: handleThemeChange with a known theme name makes it the current theme
\* and gives it to every live bubble in the active list.
C34_ThemeChangeReachesBubbles ==
    [][currentTheme' # currentTheme =>
         \A i \in 1..Len(bubbles') :
             bubbles'[i].isAlive => bubbles'[i].theme = currentTheme']_vars


\* C35: a turbulence zone is in the breeze-zone set only while its timer is
\* pending, and at most once; when the timer of a zone fires, the zone is
\* not in the set afterwards and every other zone is still there, in its
\* place, whether or not the set was regenerated, truncated or extended
\* since the zone was injected.
C35_TurbulenceZoneExpires ==
    /\ [](\A i \in 1..Len(breezeZones) :
              breezeZones[i] > 0 =>
                  /\ breezeZones[i] \in zoneTimers
                  /\ ZoneIndex(breezeZones, breezeZones[i]) = i)
    /\ [][\A k \in zoneTimers :
              k \notin zoneTimers' =>
                  /\ ZoneIndex(breezeZones', k) = 0
                  /\ breezeZones' = SelectSeq(breezeZones, LAMBDA z : z # k)]_vars

\* C35: the timer of turbulence zone 1 has fired while zone 2, injected
\* after it, is still in a set that simple physics truncated to two zones
C35_Witness ==
    /\ zoneTimers = {2}
    /\ simplePhysics
    /\ breezeZones = <<0, 0, 2>>


\* C36: spawnBubble takes the bottom edge for a draw below 0.8, the left edge
\* for a draw from 0.8 to below 0.9 and the right edge from 0.9 on; the new
\* bubble lies 30 px outside that edge, along the edge's extent, and its
\* initial velocity points into the window: up from the bottom edge, to the
\* right from the left edge, to the left from the right edge.
C36_SpawnEdgeAndVelocity ==
    [][(simulation'.spawned /\ simulation'.time = 0 /\ Len(bubbles') = Len(bubbles) + 1) =>
         LET b == bubbles'[Len(bubbles')]
             r == simulation'.draw
         IN  /\ b.age = 0 /\ b.isAlive
             /\ r < 80 =>
                   /\ b.y = 100 * (innerHeight + 30)
                   /\ b.x >= 100 * LeftSafeZone /\ b.x <= 100 * innerWidth
                   /\ b.vy < 0
             /\ (r >= 80 /\ r < 90) =>
                   /\ b.x = -(100 * 30)
                   /\ b.y >= 0 /\ b.y <= 100 * innerHeight
                   /\ b.vx > 0
             /\ r >= 90 =>
                   /\ b.x = 100 * (innerWidth + 30)
                   /\ b.y >= 0 /\ b.y <= 100 * innerHeight
                   /\ b.vx < 0]_vars

\* C36: a bubble has just been spawned on the left edge by a draw of 0.89
C36_Witness ==
    /\ simulation.spawned /\ simulation.time = 0
    /\ simulation.draw = 89
    /\ Len(bubbles) = 1
    /\ bubbles[1].x < 0 /\ bubbles[1].vx > 0


\* the number of listed bubbles, and of listed particles, of age 0
NewBubbles(bs) == Cardinality({i \in 1..Len(bs) : bs[i].age = 0})
NewParticles(ps) == Cardinality({i \in 1..Len(ps) : ps[i].age = 0})

C38_CountersEqualListSizes ==
    /\ activeCount = Len(bubbles)
    /\ activeParticles = Len(particles)

\* C38 witness: the particle system has just been disposed of after it had
\* allocated particles, while the bubble manager lists a popped bubble next
\* to a recycled one.
C38_Witness ==
    /\ lastPop = Disposed
    /\ activeParticles = 0 /\ particles = <<>> /\ particlePool = <<>>
    /\ activeCount = 1 /\ Len(bubblePool) = 1
    /\ ~bubbles[1].isAlive

====
